---- MODULE Spec2Model ----
(***************************************************************************)
(* A model of nempy.markets.Spot: the builder methods that fill the        *)
(* shared tables of one market model, the two id counters, and dispatch.   *)
(*                                                                         *)
(* A pd.DataFrame is a sequence of records (its rows, in order).  A dict   *)
(* of DataFrames is a function whose domain is the set of keys present,    *)
(* together with the order in which its keys were first stored, which is   *)
(* the order Python iterates over the dict (key_order).  A DataFrame keeps  *)
(* its columns when it has no rows: the columns of such a table are those  *)
(* its builder gives it and those dispatch has added (result_columns); the *)
(* columns of unit_info, which the caller passes, are unit_info_columns.   *)
(* Floats are integers; nan is the value NaN and inf the value Inf.        *)
(***************************************************************************)
EXTENDS Integers, Sequences, FiniteSets, TLC

VARIABLES
    unit_info,
    unit_info_columns,       \* self.unit_info.columns, the empty set while unit_info is None
    decision_variables,
    variable_to_constraint_map,
    constraint_to_variable_map,
    lhs_coefficients,
    generic_constraint_lhs,
    constraints_rhs_and_type,
    constraints_dynamic_rhs_and_type,
    market_constraints_rhs_and_type,
    objective_function_components,
    interconnector_directions,
    interconnector_loss_shares,
    key_order,               \* per dict of the model, its keys in the order of first storing
    result_columns,          \* the columns dispatch has added to a table since it was stored:
                             \*   triples <<dict, key, column>>
    next_variable_id,
    next_constraint_id,
    call,                    \* history: the last call, its argument, outcome and the ids it issued
    issued_variable_ids,     \* history: every variable id issued by a successful call so far
    issued_constraint_ids,   \* history: every constraint id issued by a successful call so far
    calls,                   \* history: the number of calls made so far, counted up to MaxCalls
    succeeded,               \* history: the methods that have returned without raising so far
    violation_costs,         \* history: per constraints_key, the violation_cost of the latest
                             \*          make_constraints_elastic that returned without raising
    solver_calls,            \* history: the methods of the solver interface the last call used,
                             \*          in the order of their use
    optimize_errors          \* history: the errors si.optimize has raised so far

tables == <<unit_info, unit_info_columns, decision_variables, variable_to_constraint_map,
            constraint_to_variable_map,
            lhs_coefficients, generic_constraint_lhs, constraints_rhs_and_type,
            constraints_dynamic_rhs_and_type, market_constraints_rhs_and_type,
            objective_function_components, interconnector_directions, interconnector_loss_shares,
            key_order, result_columns>>
counters == <<next_variable_id, next_constraint_id>>
history == <<call, issued_variable_ids, issued_constraint_ids, calls, succeeded, violation_costs,
             solver_calls, optimize_errors>>
vars == <<tables, counters, history>>

----------------------------------------------------------------------------
(* Bounds of the model.                                                    *)

MaxVariableId == 5      \* a builder that may reserve variable ids is called only while next_variable_id is below this
MaxConstraintId == 4    \* a builder that may reserve constraint ids is called only while next_constraint_id is below this
MaxValue == 2           \* a variable without a finite bound is searched up to MaxValue steps of the grid
WeightSteps == 2        \* the solver searches the members of a special ordered set in steps of 1/WeightSteps
MaxCalls == 4           \* Spec makes at most this many calls on one model

----------------------------------------------------------------------------
(* Values.                                                                 *)

NaN == -1               \* float nan: what pandas returns for the max of an empty column
Inf == 1000000          \* float inf: the upper bound of a deficit variable
MarketCeilingPrice == 14000
None == << [none |-> TRUE] >>
EmptyDict == [k \in {} |-> <<>>]

Put(d, k, v) == [x \in (DOMAIN d) \cup {k} |-> IF x = k THEN v ELSE d[x]]

\* the dicts of the model whose order of keys is kept
NoKeys ==
    [decision_variables |-> <<>>, variable_regional |-> <<>>, variable_unit_level |-> <<>>,
     constraint_regional |-> <<>>, constraint_unit_level |-> <<>>, lhs_coefficients |-> <<>>,
     generic_constraint_lhs |-> <<>>, constraints_rhs_and_type |-> <<>>,
     constraints_dynamic_rhs_and_type |-> <<>>, market_constraints_rhs_and_type |-> <<>>,
     objective_function_components |-> <<>>]

\* d[k] = v on a Python dict: a new key goes to the end, a key already present keeps its place
RECURSIVE Stored(_, _)
Stored(order, assignments) ==
    IF assignments = <<>> THEN order
    ELSE LET dict == assignments[1][1]
             key == assignments[1][2]
             keys == order[dict]
         IN Stored([order EXCEPT ![dict] = IF \E i \in DOMAIN keys : keys[i] = key THEN keys
                                          ELSE Append(keys, key)],
                   Tail(assignments))

\* the tables stored anew hold none of the columns dispatch adds
without_results(columns, assignments) ==
    {c \in columns : \A i \in DOMAIN assignments : assignments[i] # <<c[1], c[2]>>}

\* the assignments d[k] = table of one call, as <<dict, key>> pairs in the order they are made
store_keys(assignments) ==
    /\ key_order' = Stored(key_order, assignments)
    /\ result_columns' = without_results(result_columns, assignments)

\* float addition: nan + x = nan
Add(a, b) == IF a = NaN \/ b = NaN THEN NaN ELSE a + b

\* float comparison: every comparison with nan is false
Greater(a, b) == a # NaN /\ b # NaN /\ a > b

Range(s) == {s[i] : i \in DOMAIN s}

RECURSIVE SeqMaxFrom(_, _)
SeqMaxFrom(s, i) ==
    IF i = Len(s) THEN s[i]
    ELSE LET m == SeqMaxFrom(s, i + 1)
         IN IF s[i] = NaN \/ m = NaN THEN NaN ELSE IF s[i] > m THEN s[i] ELSE m

\* pandas Series.max(): nan on an empty column
SeriesMax(s) == IF s = <<>> THEN NaN ELSE SeqMaxFrom(s, 1)

RECURSIVE SelectRows(_, _)
SelectRows(rows, keep) ==
    IF rows = <<>> THEN <<>>
    ELSE (IF keep[1] THEN <<rows[1]>> ELSE <<>>) \o
         SelectRows(Tail(rows), Tail(keep))

RECURSIVE Concat(_)
Concat(seqs) == IF seqs = <<>> THEN <<>> ELSE seqs[1] \o Concat(Tail(seqs))

\* the column of ids hf.save_index(frame, name, offset) adds: row index + offset
save_index(n, offset) == [i \in 1..n |-> Add(i - 1, offset)]

Column(rows, name) == [i \in DOMAIN rows |-> rows[i][name]]

----------------------------------------------------------------------------
(* History bookkeeping shared by all calls.                                *)

Outcome(op, argument, error, vids, cids) ==
    [op |-> op, argument |-> argument, error |-> error, variable_ids |-> vids, constraint_ids |-> cids]

Record(op, argument, error, vids, cids) ==
    /\ call' = Outcome(op, argument, error, vids, cids)
    /\ issued_variable_ids' = issued_variable_ids \cup Range(vids)
    /\ issued_constraint_ids' = issued_constraint_ids \cup Range(cids)
    /\ calls' = IF calls < MaxCalls THEN calls + 1 ELSE calls
    /\ succeeded' = IF error = "none" THEN succeeded \cup {op} ELSE succeeded
    /\ violation_costs' =
          IF op = "make_constraints_elastic" /\ error = "none"
          THEN Put(violation_costs, argument.constraints_key, argument.violation_cost)
          ELSE violation_costs
    /\ IF op = "dispatch" THEN TRUE ELSE solver_calls' = <<>>   \* dispatch keeps its own record
    /\ optimize_errors' = IF error \in {"InfeasibleError", "UnboundedError"}
                          THEN optimize_errors \cup {error} ELSE optimize_errors

\* a call that raises after it has written a value of 0 into every variable table
raise_after_writing_values(op, argument, error) ==
    /\ Record(op, argument, error, <<>>, <<>>)
    /\ decision_variables' =
          [k \in DOMAIN decision_variables |->
              [i \in DOMAIN decision_variables[k] |->
                  [f \in DOMAIN decision_variables[k][i] \cup {"value"} |->
                      IF f = "value" THEN 0 ELSE decision_variables[k][i][f]]]]
    /\ UNCHANGED <<key_order, result_columns>>
    /\ UNCHANGED <<unit_info, unit_info_columns, variable_to_constraint_map, constraint_to_variable_map,
                   lhs_coefficients, generic_constraint_lhs, constraints_rhs_and_type,
                   constraints_dynamic_rhs_and_type, market_constraints_rhs_and_type,
                   objective_function_components, interconnector_directions,
                   interconnector_loss_shares, counters>>

\* the call raised before it assigned anything
Raise(op, argument, error) ==
    /\ Record(op, argument, error, <<>>, <<>>)
    /\ UNCHANGED <<tables, counters>>

Init ==
    /\ unit_info = None
    /\ unit_info_columns = {}
    /\ decision_variables = EmptyDict
    /\ variable_to_constraint_map = [regional |-> EmptyDict, unit_level |-> EmptyDict]
    /\ constraint_to_variable_map = [regional |-> EmptyDict, unit_level |-> EmptyDict]
    /\ lhs_coefficients = EmptyDict
    /\ generic_constraint_lhs = EmptyDict
    /\ constraints_rhs_and_type = EmptyDict
    /\ constraints_dynamic_rhs_and_type = EmptyDict
    /\ market_constraints_rhs_and_type = EmptyDict
    /\ objective_function_components = EmptyDict
    /\ interconnector_directions = None
    /\ interconnector_loss_shares = None
    /\ key_order = NoKeys
    /\ result_columns = {}
    /\ next_variable_id = 0
    /\ next_constraint_id = 0
    /\ call = Outcome("__init__", <<>>, "none", <<>>, <<>>)
    /\ issued_variable_ids = {}
    /\ issued_constraint_ids = {}
    /\ calls = 0
    /\ succeeded = {}
    /\ violation_costs = EmptyDict
    /\ solver_calls = <<>>
    /\ optimize_errors = {}

----------------------------------------------------------------------------
(* Id counters.                                                            *)

\* Python's builtin max() raises ValueError on an empty column
builtin_max_raises(ids) == ids = <<>>

\* the counter after a call that issued ids: max(ids) + 1
next_id_after(ids) == Add(SeriesMax(ids), 1)

WithColumn(row, name, value) ==
    [f \in (DOMAIN row) \cup {name} |-> IF f = name THEN value ELSE row[f]]

----------------------------------------------------------------------------
(* set_demand_constraints                                                  *)

\* market_constraints.energy: one '=' constraint per region
energy_rhs_and_type(demand, start) ==
    [i \in 1..Len(demand) |->
        [region |-> demand[i].region, constraint_id |-> save_index(Len(demand), start)[i],
         type |-> "=", rhs |-> demand[i].demand]]

energy_variable_map(rhs_and_type) ==
    [i \in 1..Len(rhs_and_type) |->
        [constraint_id |-> rhs_and_type[i].constraint_id, region |-> rhs_and_type[i].region,
         service |-> "energy", coefficient |-> 1]]

set_demand_constraints(demand) ==
    LET rhs_and_type == energy_rhs_and_type(demand, next_constraint_id)
        variable_map == energy_variable_map(rhs_and_type)
        ids == Column(rhs_and_type, "constraint_id")
    IN  /\ market_constraints_rhs_and_type' = Put(market_constraints_rhs_and_type, "demand", rhs_and_type)
        /\ constraint_to_variable_map' =
              [constraint_to_variable_map EXCEPT !.regional = Put(@, "demand", variable_map)]
        /\ IF builtin_max_raises(ids)
           THEN /\ next_constraint_id' = next_constraint_id
                /\ Record("set_demand_constraints", demand, "ValueError", <<>>, <<>>)
           ELSE /\ next_constraint_id' = next_id_after(ids)
                /\ Record("set_demand_constraints", demand, "none", <<>>, ids)
        /\ store_keys(<<<<"market_constraints_rhs_and_type", "demand">>, <<"constraint_regional", "demand">>>>)
        /\ UNCHANGED <<unit_info, unit_info_columns, decision_variables, variable_to_constraint_map, lhs_coefficients,
                       generic_constraint_lhs, constraints_rhs_and_type,
                       constraints_dynamic_rhs_and_type, objective_function_components,
                       interconnector_directions, interconnector_loss_shares, next_variable_id>>

----------------------------------------------------------------------------
(* set_generic_constraints                                                 *)

generic_type_and_rhs(generic_constraint_parameters, start) ==
    [i \in 1..Len(generic_constraint_parameters) |->
        [set |-> generic_constraint_parameters[i].set,
         constraint_id |-> save_index(Len(generic_constraint_parameters), start)[i],
         type |-> generic_constraint_parameters[i].type,
         rhs |-> generic_constraint_parameters[i].rhs]]

set_generic_constraints(generic_constraint_parameters) ==
    LET type_and_rhs == generic_type_and_rhs(generic_constraint_parameters, next_constraint_id)
        ids == Column(type_and_rhs, "constraint_id")
    IN  /\ constraints_rhs_and_type' = Put(constraints_rhs_and_type, "generic", type_and_rhs)
        /\ next_constraint_id' = Add(SeriesMax(ids), 1)
        /\ Record("set_generic_constraints", generic_constraint_parameters, "none", <<>>, ids)
        /\ store_keys(<<<<"constraints_rhs_and_type", "generic">>>>)
        /\ UNCHANGED <<unit_info, unit_info_columns, decision_variables, variable_to_constraint_map,
                       constraint_to_variable_map, lhs_coefficients, generic_constraint_lhs,
                       constraints_dynamic_rhs_and_type, market_constraints_rhs_and_type,
                       objective_function_components, interconnector_directions,
                       interconnector_loss_shares, next_variable_id>>

----------------------------------------------------------------------------
(* set_fcas_requirements_constraints                                       *)

RECURSIVE drop_duplicates(_, _)
\* DataFrame.drop_duplicates(name): the first row of every value of the column
drop_duplicates(rows, name) ==
    IF rows = <<>> THEN <<>>
    ELSE LET init == drop_duplicates(SubSeq(rows, 1, Len(rows) - 1), name)
             last == rows[Len(rows)]
         IN IF \E i \in 1..(Len(rows) - 1) : rows[i][name] = last[name] THEN init ELSE Append(init, last)

\* market_constraints.fcas: one constraint per requirement set, '=' when no type column is given
fcas_rhs_and_type(fcas_requirements, start) ==
    LET sets == drop_duplicates(fcas_requirements, "set")
    IN [i \in 1..Len(sets) |->
           [set |-> sets[i].set, constraint_id |-> save_index(Len(sets), start)[i],
            type |-> IF "type" \in DOMAIN sets[i] THEN sets[i].type ELSE "=",
            rhs |-> sets[i].volume]]

fcas_variable_map(fcas_requirements, rhs_and_type) ==
    [i \in 1..Len(fcas_requirements) |->
        [constraint_id |-> (CHOOSE r \in Range(rhs_and_type) : r.set = fcas_requirements[i].set).constraint_id,
         service |-> fcas_requirements[i].service, region |-> fcas_requirements[i].region,
         coefficient |-> 1]]

set_fcas_requirements_constraints(fcas_requirements) ==
    LET rhs_and_type == fcas_rhs_and_type(fcas_requirements, next_constraint_id)
        variable_map == fcas_variable_map(fcas_requirements, rhs_and_type)
        ids == Column(rhs_and_type, "constraint_id")
    IN  /\ market_constraints_rhs_and_type' = Put(market_constraints_rhs_and_type, "fcas", rhs_and_type)
        /\ constraint_to_variable_map' =
              [constraint_to_variable_map EXCEPT !.regional = Put(@, "fcas", variable_map)]
        /\ IF builtin_max_raises(ids)
           THEN /\ next_constraint_id' = next_constraint_id
                /\ Record("set_fcas_requirements_constraints", fcas_requirements, "ValueError", <<>>, <<>>)
           ELSE /\ next_constraint_id' = next_id_after(ids)
                /\ Record("set_fcas_requirements_constraints", fcas_requirements, "none", <<>>, ids)
        /\ store_keys(<<<<"market_constraints_rhs_and_type", "fcas">>, <<"constraint_regional", "fcas">>>>)
        /\ UNCHANGED <<unit_info, unit_info_columns, decision_variables, variable_to_constraint_map, lhs_coefficients,
                       generic_constraint_lhs, constraints_rhs_and_type,
                       constraints_dynamic_rhs_and_type, objective_function_components,
                       interconnector_directions, interconnector_loss_shares, next_variable_id>>

----------------------------------------------------------------------------
(* make_constraints_elastic                                                *)

\* A violation_cost argument: [kind, value, rows].
\*   kind "str"   : a string, value 1 for 'market_ceiling_price', 0 for any other string
\*   kind "num"   : an int or float, the cost is value
\*   kind "bool"  : a bool
\*   kind "frame" : a pd.DataFrame with columns set and cost, its rows in rows
CostStr(v) == [kind |-> "str", value |-> v, rows |-> <<>>]
CostNum(v) == [kind |-> "num", value |-> v, rows |-> <<>>]
CostBool == [kind |-> "bool", value |-> 1, rows |-> <<>>]
CostFrame(rows) == [kind |-> "frame", value |-> 0, rows |-> rows]

is_market_ceiling_price(violation_cost) == violation_cost.kind = "str" /\ violation_cost.value = 1
is_numeric_cost(violation_cost) == violation_cost.kind = "num"
is_frame_cost(violation_cost) == violation_cost.kind = "frame"

key_exists(constraints_key) ==
    \/ constraints_key \in DOMAIN market_constraints_rhs_and_type
    \/ constraints_key \in DOMAIN constraints_rhs_and_type

\* the family looked up by the key: market constraints first, then the others
family_rhs_and_type(constraints_key) ==
    IF constraints_key \in DOMAIN market_constraints_rhs_and_type
    THEN market_constraints_rhs_and_type[constraints_key]
    ELSE constraints_rhs_and_type[constraints_key]

has_repeated_sets(rows) == Len(rows) # Len(drop_duplicates(rows, "set"))

\* the columns a builder gives the table it stores under a key of a dict: a DataFrame
\* keeps its columns when it has no rows, a sequence of rows does not
empty_table_columns(dict, key) ==
    IF dict = "decision_variables"
    THEN {"variable_id", "lower_bound", "upper_bound", "type"} \cup
         (CASE key = "bids" -> {"unit", "capacity_band", "service"}
            [] key \in {"interconnectors", "interconnector_losses"} -> {"interconnector"}
            [] key = "interpolation_weights" -> {"interconnector", "loss_segment", "break_point"}
            [] OTHER -> {})
    ELSE IF dict = "constraints_dynamic_rhs_and_type"
    THEN {"interconnector", "constraint_id", "type", "rhs_variable_id"}
    ELSE {"constraint_id", "type", "rhs"} \cup
         (CASE key \in {"generic", "fcas"} -> {"set"}
            [] key = "demand" -> {"region"}
            [] key = "interpolation_weights" -> {"interconnector"}
            [] key \in {"fcas_max_availability", "joint_capacity",
                        "energy_and_regulation_capacity"} -> {"unit", "service"}
            [] OTHER -> {"unit"})

\* DataFrame.columns of the table stored under a key of a dict: the builder's columns and
\* those dispatch has added since
columns_of(dict, key, table) ==
    IF table # <<>> THEN DOMAIN table[1]
    ELSE empty_table_columns(dict, key)
         \cup {c[3] : c \in {x \in result_columns : x[1] = dict /\ x[2] = key}}

\* pd.merge(rhs_and_type, ..., on='set') needs the column set in the family, with or without rows
has_set_column(constraints_key) ==
    "set" \in columns_of(IF constraints_key \in DOMAIN market_constraints_rhs_and_type
                         THEN "market_constraints_rhs_and_type" ELSE "constraints_rhs_and_type",
                         constraints_key, family_rhs_and_type(constraints_key))

\* whether a branch of make_constraints_elastic has assigned the column cost
has_cost_column(violation_cost) ==
    is_market_ceiling_price(violation_cost) \/ is_numeric_cost(violation_cost)
    \/ is_frame_cost(violation_cost)

RECURSIVE merge_on_set(_, _)
\* pd.merge(rhs_and_type, cost, on='set'): an inner join that keeps the order of the left rows
merge_on_set(rhs_and_type, cost) ==
    IF rhs_and_type = <<>> THEN <<>>
    ELSE LET r == rhs_and_type[1]
             m == SelectRows(cost, [j \in DOMAIN cost |-> cost[j].set = r.set])
         IN [j \in DOMAIN m |-> WithColumn(r, "cost", m[j].cost)] \o merge_on_set(Tail(rhs_and_type), cost)

\* the constraints that get a cost column, or <<>> with has_cost FALSE when no branch assigns one
rhs_and_type_with_cost(rhs_and_type, violation_cost) ==
    IF is_market_ceiling_price(violation_cost)
    THEN [i \in DOMAIN rhs_and_type |-> WithColumn(rhs_and_type[i], "cost", MarketCeilingPrice)]
    ELSE IF is_numeric_cost(violation_cost)
    THEN [i \in DOMAIN rhs_and_type |-> WithColumn(rhs_and_type[i], "cost", violation_cost.value)]
    ELSE IF is_frame_cost(violation_cost)
    THEN merge_on_set(rhs_and_type, violation_cost.rows)
    ELSE rhs_and_type

\* the error raised before create_deficit_variables is reached, "none" if it is reached
elastic_argument_error(constraints_key, violation_cost) ==
    IF is_market_ceiling_price(violation_cost) \/ is_numeric_cost(violation_cost)
    THEN IF key_exists(constraints_key) THEN "none" ELSE "UnboundLocalError"
    ELSE IF is_frame_cost(violation_cost)
    THEN IF has_repeated_sets(violation_cost.rows) THEN "RepeatedRowError"
         ELSE IF ~key_exists(constraints_key) THEN "UnboundLocalError"
         ELSE IF ~has_set_column(constraints_key) THEN "KeyError"
         ELSE "none"
    ELSE IF key_exists(constraints_key) THEN "none" ELSE "UnboundLocalError"

\* the signs the wrong way round
deficit_coefficient_flipped(type, equality_coefficient) ==
    CASE type = ">=" -> -1
      [] type = "<=" -> 1
      [] OTHER -> equality_coefficient

\* the coefficient of a deficit variable in its constraint: the one that relaxes a '>='
\* or a '<=' constraint; the helper's choice for an '=' constraint is not shown by the
\* method or its doctest, so it is an argument here
deficit_coefficient(type, equality_coefficient) ==
    CASE type = ">=" -> 1
      [] type = "<=" -> -1
      [] OTHER -> equality_coefficient

\* the coefficients the helper may give the deficit variable of an '=' constraint
EqualityCoefficients == {-1, 1}

\* elastic_constraints.create_deficit_variables: the error it raises, "none" if it returns.
\* It reads the column cost of every row it is handed, whatever the type of the row.
create_deficit_variables_error(rhs_and_type, has_cost) ==
    IF ~has_cost THEN "KeyError" ELSE "none"

\* deficit variables numbered from 0 whatever the counter says
create_deficit_variables_from_zero(rhs_and_type, start) ==
    [i \in 1..Len(rhs_and_type) |->
        [variable_id |-> save_index(Len(rhs_and_type), 0)[i], cost |-> rhs_and_type[i].cost,
         lower_bound |-> 0, upper_bound |-> Inf, type |-> "continuous"]]

\* elastic_constraints.create_deficit_variables: one deficit variable per row
create_deficit_variables(rhs_and_type, start) ==
    [i \in 1..Len(rhs_and_type) |->
        [variable_id |-> save_index(Len(rhs_and_type), start)[i], cost |-> rhs_and_type[i].cost,
         lower_bound |-> 0, upper_bound |-> Inf, type |-> "continuous"]]

create_deficit_lhs(rhs_and_type, start, equality_coefficient) ==
    [i \in 1..Len(rhs_and_type) |->
        [variable_id |-> save_index(Len(rhs_and_type), start)[i],
         constraint_id |-> rhs_and_type[i].constraint_id,
         coefficient |-> deficit_coefficient(rhs_and_type[i].type, equality_coefficient)]]

\* constraints_key + '_deficit'
deficit_key(constraints_key) == constraints_key \o "_deficit"

Loc(rows, columns) == [i \in DOMAIN rows |-> [f \in columns |-> rows[i][f]]]

make_constraints_elastic(constraints_key, violation_cost) ==
    LET argument_error == elastic_argument_error(constraints_key, violation_cost)
        rhs_and_type == rhs_and_type_with_cost(family_rhs_and_type(constraints_key), violation_cost)
        helper_error ==
            create_deficit_variables_error(rhs_and_type, has_cost_column(violation_cost))
        deficit_variables == create_deficit_variables(rhs_and_type, next_variable_id)
        ids == Column(deficit_variables, "variable_id")
        key == deficit_key(constraints_key)
        argument == [constraints_key |-> constraints_key, violation_cost |-> violation_cost]
    IN  IF argument_error # "none" THEN Raise("make_constraints_elastic", argument, argument_error)
        ELSE IF helper_error # "none" THEN Raise("make_constraints_elastic", argument, helper_error)
        ELSE \E equality_coefficient \in EqualityCoefficients :
        /\ decision_variables' = Put(decision_variables, key,
               Loc(deficit_variables, {"variable_id", "lower_bound", "upper_bound", "type"}))
        /\ objective_function_components' = Put(objective_function_components, key,
               Loc(deficit_variables, {"variable_id", "cost"}))
        /\ lhs_coefficients' = Put(lhs_coefficients, key,
               create_deficit_lhs(rhs_and_type, next_variable_id, equality_coefficient))
        /\ IF builtin_max_raises(ids)
           THEN /\ next_variable_id' = next_variable_id
                /\ Record("make_constraints_elastic", argument, "ValueError", <<>>, <<>>)
           ELSE /\ next_variable_id' = next_id_after(ids)
                /\ Record("make_constraints_elastic", argument, "none", ids, <<>>)
        /\ store_keys(<<<<"decision_variables", key>>, <<"objective_function_components", key>>,
                                           <<"lhs_coefficients", key>>>>)
        /\ UNCHANGED <<unit_info, unit_info_columns, variable_to_constraint_map, constraint_to_variable_map,
                       generic_constraint_lhs, constraints_rhs_and_type,
                       constraints_dynamic_rhs_and_type, market_constraints_rhs_and_type,
                       interconnector_directions, interconnector_loss_shares, next_constraint_id>>

----------------------------------------------------------------------------
(* set_unit_info                                                           *)

\* info is the rows and columns the columns of the DataFrame passed
set_unit_info(info, columns) ==
    /\ \A i \in DOMAIN info : DOMAIN info[i] = columns
    /\ unit_info' = [i \in DOMAIN info |->
                        IF "dispatch_type" \in columns THEN info[i]
                        ELSE WithColumn(info[i], "dispatch_type", "generator")]
    /\ unit_info_columns' = columns \cup {"dispatch_type"}
    /\ Record("set_unit_info", info, "none", <<>>, <<>>)
    /\ UNCHANGED <<key_order, result_columns>>
    /\ UNCHANGED <<decision_variables, variable_to_constraint_map, constraint_to_variable_map,
                   lhs_coefficients, generic_constraint_lhs, constraints_rhs_and_type,
                   constraints_dynamic_rhs_and_type, market_constraints_rhs_and_type,
                   objective_function_components, interconnector_directions,
                   interconnector_loss_shares, counters>>

----------------------------------------------------------------------------
(* set_unit_volume_bids                                                    *)

\* check.all_units_have_info: every bidding unit has a row in unit_info
all_units_have_info(volume_bids) ==
    /\ unit_info # None
    /\ \A i \in DOMAIN volume_bids : \E j \in DOMAIN unit_info : unit_info[j].unit = volume_bids[i].unit

service_of(row) == IF "service" \in DOMAIN row THEN row.service ELSE "energy"

\* hf.stack_columns: one row per (unit, service, band), the bands of a unit in order
stack_columns(bids, value_name) ==
    Concat([i \in DOMAIN bids |->
               [b \in DOMAIN bids[i].bands |->
                   WithColumn([unit |-> bids[i].unit, service |-> service_of(bids[i]), capacity_band |-> b],
                              value_name, bids[i].bands[b])]])

\* variable_ids.bids: one variable per band with a non-zero volume
bids_decision_variables(volume_bids, start) ==
    LET stacked == stack_columns(volume_bids, "upper_bound")
        nonzero == SelectRows(stacked, [i \in DOMAIN stacked |-> stacked[i].upper_bound > 0])
    IN [i \in 1..Len(nonzero) |->
           [unit |-> nonzero[i].unit, capacity_band |-> nonzero[i].capacity_band,
            service |-> nonzero[i].service, variable_id |-> save_index(Len(nonzero), start)[i],
            lower_bound |-> 0, upper_bound |-> nonzero[i].upper_bound, type |-> "continuous"]]

bids_unit_level_constraint_map(variables) ==
    [i \in DOMAIN variables |->
        [variable_id |-> variables[i].variable_id, unit |-> variables[i].unit,
         service |-> variables[i].service, coefficient |-> 1]]

region_of(unit) == (CHOOSE r \in Range(unit_info) : r.unit = unit).region

bids_regional_constraint_map(variables) ==
    [i \in DOMAIN variables |->
        [variable_id |-> variables[i].variable_id, region |-> region_of(variables[i].unit),
         service |-> variables[i].service, coefficient |-> 1]]

set_unit_volume_bids(volume_bids) ==
    IF unit_info = None THEN Raise("set_unit_volume_bids", volume_bids, "TypeError")
    ELSE IF ~all_units_have_info(volume_bids) THEN Raise("set_unit_volume_bids", volume_bids, "ModelBuildError")
    ELSE
    LET variables == bids_decision_variables(volume_bids, next_variable_id)
        ids == Column(variables, "variable_id")
    IN  /\ decision_variables' = Put(decision_variables, "bids", variables)
        /\ variable_to_constraint_map' =
              [regional |-> Put(variable_to_constraint_map.regional, "bids",
                                bids_regional_constraint_map(variables)),
               unit_level |-> Put(variable_to_constraint_map.unit_level, "bids",
                                  bids_unit_level_constraint_map(variables))]
        /\ IF builtin_max_raises(ids)
           THEN /\ next_variable_id' = next_variable_id
                /\ Record("set_unit_volume_bids", volume_bids, "ValueError", <<>>, <<>>)
           ELSE /\ next_variable_id' = next_id_after(ids)
                /\ Record("set_unit_volume_bids", volume_bids, "none", ids, <<>>)
        /\ store_keys(<<<<"decision_variables", "bids">>, <<"variable_unit_level", "bids">>,
                                           <<"variable_regional", "bids">>>>)
        /\ UNCHANGED <<unit_info, unit_info_columns, constraint_to_variable_map, lhs_coefficients, generic_constraint_lhs,
                       constraints_rhs_and_type, constraints_dynamic_rhs_and_type,
                       market_constraints_rhs_and_type, objective_function_components,
                       interconnector_directions, interconnector_loss_shares, next_constraint_id>>

----------------------------------------------------------------------------
(* set_unit_price_bids                                                     *)

\* check.energy_bid_ids_exist: the bid variable table has been stored
energy_bid_ids_exist == "bids" \in DOMAIN decision_variables

\* a check that looks at the bands of the last row only
bid_prices_monotonic_in_last_row(price_bids) ==
    \A b \in DOMAIN price_bids[Len(price_bids)].bands :
        b + 1 \in DOMAIN price_bids[Len(price_bids)].bands
            => price_bids[Len(price_bids)].bands[b] <= price_bids[Len(price_bids)].bands[b + 1]

\* check.bid_prices_monotonic_increasing: the bands of every row are non-decreasing
bid_prices_monotonic_increasing(price_bids) ==
    \A i \in DOMAIN price_bids : \A b \in DOMAIN price_bids[i].bands :
        b + 1 \in DOMAIN price_bids[i].bands => price_bids[i].bands[b] <= price_bids[i].bands[b + 1]

\* objective_function.bids: the bid variables joined with the stacked prices on (unit, service, band)
objective_function_bids(variables, price_bids) ==
    LET prices == stack_columns(price_bids, "cost")
        priced == SelectRows(variables,
                     [i \in DOMAIN variables |->
                         \E j \in DOMAIN prices : /\ prices[j].unit = variables[i].unit
                                                  /\ prices[j].service = variables[i].service
                                                  /\ prices[j].capacity_band = variables[i].capacity_band])
    IN [i \in DOMAIN priced |->
           [variable_id |-> priced[i].variable_id, unit |-> priced[i].unit,
            service |-> priced[i].service, capacity_band |-> priced[i].capacity_band,
            cost |-> (CHOOSE p \in Range(prices) : /\ p.unit = priced[i].unit
                                                   /\ p.service = priced[i].service
                                                   /\ p.capacity_band = priced[i].capacity_band).cost]]

has_loss_factor_column == "loss_factor" \in unit_info_columns

\* the unit has a row in unit_info, and so a loss factor when the column is there
has_info(unit) == \E r \in Range(unit_info) : r.unit = unit

\* a scaling that multiplies the cost by the loss factor of the unit
scale_up_by_loss_factors(objective) ==
    [i \in DOMAIN objective |->
        [objective[i] EXCEPT !.cost =
            IF has_info(objective[i].unit)
            THEN @ * (CHOOSE r \in Range(unit_info) : r.unit = objective[i].unit).loss_factor
            ELSE @]]

\* objective_function.scale_by_loss_factors: cost / loss_factor of the unit, where one
\* is supplied for the unit
scale_by_loss_factors(objective) ==
    [i \in DOMAIN objective |->
        [objective[i] EXCEPT !.cost =
            IF has_info(objective[i].unit)
            THEN @ \div (CHOOSE r \in Range(unit_info) : r.unit = objective[i].unit).loss_factor
            ELSE @]]

set_unit_price_bids(price_bids) ==
    IF ~energy_bid_ids_exist THEN Raise("set_unit_price_bids", price_bids, "ModelBuildError")
    ELSE IF ~bid_prices_monotonic_increasing(price_bids)
    THEN Raise("set_unit_price_bids", price_bids, "BidsNotMonotonicIncreasing")
    ELSE
    LET energy_objective_function == objective_function_bids(decision_variables["bids"], price_bids)
        scaled == IF has_loss_factor_column THEN scale_by_loss_factors(energy_objective_function)
                  ELSE energy_objective_function
    IN  /\ objective_function_components' = Put(objective_function_components, "bids", scaled)
        /\ Record("set_unit_price_bids", price_bids, "none", <<>>, <<>>)
        /\ store_keys(<<<<"objective_function_components", "bids">>>>)
        /\ UNCHANGED <<unit_info, unit_info_columns, decision_variables, variable_to_constraint_map,
                       constraint_to_variable_map, lhs_coefficients, generic_constraint_lhs,
                       constraints_rhs_and_type, constraints_dynamic_rhs_and_type,
                       market_constraints_rhs_and_type, interconnector_directions,
                       interconnector_loss_shares, counters>>

----------------------------------------------------------------------------
(* set_unit_capacity_constraints                                           *)

\* unit_constraints.capacity: one '<=' constraint per unit
capacity_rhs_and_type(unit_limits, start) ==
    [i \in 1..Len(unit_limits) |->
        [unit |-> unit_limits[i].unit, constraint_id |-> save_index(Len(unit_limits), start)[i],
         type |-> "<=", rhs |-> unit_limits[i].capacity]]

capacity_variable_map(rhs_and_type) ==
    [i \in DOMAIN rhs_and_type |->
        [constraint_id |-> rhs_and_type[i].constraint_id, unit |-> rhs_and_type[i].unit,
         service |-> "energy", coefficient |-> 1]]

set_unit_capacity_constraints(unit_limits) ==
    IF ~energy_bid_ids_exist THEN Raise("set_unit_capacity_constraints", unit_limits, "ModelBuildError")
    ELSE
    LET rhs_and_type == capacity_rhs_and_type(unit_limits, next_constraint_id)
        variable_map == capacity_variable_map(rhs_and_type)
        ids == Column(rhs_and_type, "constraint_id")
    IN  /\ constraints_rhs_and_type' = Put(constraints_rhs_and_type, "unit_capacity", rhs_and_type)
        /\ constraint_to_variable_map' =
              [constraint_to_variable_map EXCEPT !.unit_level = Put(@, "unit_capacity", variable_map)]
        /\ IF builtin_max_raises(ids)
           THEN /\ next_constraint_id' = next_constraint_id
                /\ Record("set_unit_capacity_constraints", unit_limits, "ValueError", <<>>, <<>>)
           ELSE /\ next_constraint_id' = next_id_after(ids)
                /\ Record("set_unit_capacity_constraints", unit_limits, "none", <<>>, ids)
        /\ store_keys(<<<<"constraints_rhs_and_type", "unit_capacity">>,
                                           <<"constraint_unit_level", "unit_capacity">>>>)
        /\ UNCHANGED <<unit_info, unit_info_columns, decision_variables, variable_to_constraint_map, lhs_coefficients,
                       generic_constraint_lhs, constraints_dynamic_rhs_and_type,
                       market_constraints_rhs_and_type, objective_function_components,
                       interconnector_directions, interconnector_loss_shares, next_variable_id>>

----------------------------------------------------------------------------
(* set_unit_ramp_up_constraints, set_unit_ramp_down_constraints            *)

\* Spot(dispatch_interval=30): the length of the dispatch interval in minutes
dispatch_interval == 30

\* unit_constraints.ramp_up: one '<=' constraint per unit,
\* rhs = initial_output + ramp_up_rate * (dispatch_interval / 60)
ramp_up(unit_limits, start) ==
    LET rhs_and_type ==
            [i \in 1..Len(unit_limits) |->
                [unit |-> unit_limits[i].unit, constraint_id |-> save_index(Len(unit_limits), start)[i],
                 type |-> "<=",
                 rhs |-> unit_limits[i].initial_output
                            + (unit_limits[i].ramp_up_rate * dispatch_interval) \div 60]]
    IN [rhs_and_type |-> rhs_and_type, variable_map |-> capacity_variable_map(rhs_and_type)]

\* a ramp_down that does not let the limit fall below zero
ramp_down_clamped(unit_limits, start) ==
    LET limit(i) == unit_limits[i].initial_output
                       - (unit_limits[i].ramp_down_rate * dispatch_interval) \div 60
        rhs_and_type ==
            [i \in 1..Len(unit_limits) |->
                [unit |-> unit_limits[i].unit, constraint_id |-> save_index(Len(unit_limits), start)[i],
                 type |-> ">=", rhs |-> IF limit(i) < 0 THEN 0 ELSE limit(i)]]
    IN [rhs_and_type |-> rhs_and_type, variable_map |-> capacity_variable_map(rhs_and_type)]

\* unit_constraints.ramp_down: one '>=' constraint per unit,
\* rhs = initial_output - ramp_down_rate * (dispatch_interval / 60)
ramp_down(unit_limits, start) ==
    LET rhs_and_type ==
            [i \in 1..Len(unit_limits) |->
                [unit |-> unit_limits[i].unit, constraint_id |-> save_index(Len(unit_limits), start)[i],
                 type |-> ">=",
                 rhs |-> unit_limits[i].initial_output
                            - (unit_limits[i].ramp_down_rate * dispatch_interval) \div 60]]
    IN [rhs_and_type |-> rhs_and_type, variable_map |-> capacity_variable_map(rhs_and_type)]

\* the body shared by the builders of unit level constraints: store the two tables under
\* the key, then advance the counter
save_unit_level_constraints(op, key, unit_limits, created) ==
    LET ids == Column(created.rhs_and_type, "constraint_id")
    IN  /\ constraints_rhs_and_type' = Put(constraints_rhs_and_type, key, created.rhs_and_type)
        /\ constraint_to_variable_map' =
              [constraint_to_variable_map EXCEPT !.unit_level = Put(@, key, created.variable_map)]
        /\ IF builtin_max_raises(ids)
           THEN /\ next_constraint_id' = next_constraint_id
                /\ Record(op, unit_limits, "ValueError", <<>>, <<>>)
           ELSE /\ next_constraint_id' = next_id_after(ids)
                /\ Record(op, unit_limits, "none", <<>>, ids)
        /\ store_keys(<<<<"constraints_rhs_and_type", key>>, <<"constraint_unit_level", key>>>>)
        /\ UNCHANGED <<unit_info, unit_info_columns, decision_variables, variable_to_constraint_map, lhs_coefficients,
                       generic_constraint_lhs, constraints_dynamic_rhs_and_type,
                       market_constraints_rhs_and_type, objective_function_components,
                       interconnector_directions, interconnector_loss_shares, next_variable_id>>

set_unit_ramp_up_constraints(unit_limits) ==
    IF ~energy_bid_ids_exist THEN Raise("set_unit_ramp_up_constraints", unit_limits, "ModelBuildError")
    ELSE save_unit_level_constraints("set_unit_ramp_up_constraints", "ramp_up", unit_limits,
                               ramp_up(unit_limits, next_constraint_id))

\* no decorator of set_unit_ramp_down_constraints looks for the energy bids
set_unit_ramp_down_constraints(unit_limits) ==
    save_unit_level_constraints("set_unit_ramp_down_constraints", "ramp_down", unit_limits,
                          ramp_down(unit_limits, next_constraint_id))

----------------------------------------------------------------------------
(* set_fcas_max_availability                                               *)

\* unit_constraints.fcas_max_availability: one '<=' constraint per row, on the bids of the
\* unit for the service, with rhs max_availability
fcas_max_availability_constraints(fcas_max_availability, start) ==
    LET id(i) == save_index(Len(fcas_max_availability), start)[i]
    IN [rhs_and_type |->
           [i \in 1..Len(fcas_max_availability) |->
               [unit |-> fcas_max_availability[i].unit, service |-> fcas_max_availability[i].service,
                constraint_id |-> id(i), type |-> "<=",
                rhs |-> fcas_max_availability[i].max_availability]],
        variable_map |->
           [i \in 1..Len(fcas_max_availability) |->
               [constraint_id |-> id(i), unit |-> fcas_max_availability[i].unit,
                service |-> fcas_max_availability[i].service, coefficient |-> 1]]]

set_fcas_max_availability(fcas_max_availability) ==
    save_unit_level_constraints("set_fcas_max_availability", "fcas_max_availability",
                                fcas_max_availability,
                                fcas_max_availability_constraints(fcas_max_availability,
                                                                  next_constraint_id))

----------------------------------------------------------------------------
(* set_joint_capacity_constraints,                                         *)
(* set_energy_and_regulation_capacity_constraints                          *)

\* The helpers of fcas_constraints are handed the dispatch type of every unit.  Their
\* constraints have the one form that the description of the model gives for every unit,
\* whatever its dispatch type.

Abs(x) == IF x < 0 THEN -x ELSE x

RECURSIVE gcd(_, _)
gcd(a, b) == IF b = 0 THEN a ELSE gcd(b, a % b)

\* the float quotient of two numbers, kept exact as a fraction in lowest terms with a
\* denominator that is not negative: 1/0 is inf, -1/0 is -inf and 0/0 is nan
quotient(dividend, divisor) ==
    LET common == gcd(Abs(dividend), Abs(divisor))
        sign == IF divisor < 0 THEN -1 ELSE 1
    IN IF common = 0 THEN [numerator |-> 0, denominator |-> 0]
       ELSE [numerator |-> sign * (dividend \div common), denominator |-> sign * (divisor \div common)]

negative(fraction) == [numerator |-> -fraction.numerator, denominator |-> fraction.denominator]

\* a slope that divides the availability by the rise
slope_inverted(rise, max_availability) == quotient(max_availability, rise)

\* the slope of one side of a trapezium: rise / max_availability, as a float division
slope(rise, max_availability) == quotient(rise, max_availability)

\* the constraints of the upper and the lower slope of every trapezium; a regulation
\* service named in raise_service, lower_service is added to the side it is named for
trapezium_constraints(trapeziums, start, raise_service, lower_service) ==
    LET upper(i) == start + 2 * (i - 1)
        lower(i) == upper(i) + 1
        term(id, t, service, coefficient) ==
            [constraint_id |-> id, unit |-> t.unit, service |-> service, coefficient |-> coefficient]
    IN [rhs_and_type |->
           Concat([i \in 1..Len(trapeziums) |->
               <<[unit |-> trapeziums[i].unit, service |-> trapeziums[i].service,
                  constraint_id |-> upper(i), type |-> "<=", rhs |-> trapeziums[i].enablement_max],
                 [unit |-> trapeziums[i].unit, service |-> trapeziums[i].service,
                  constraint_id |-> lower(i), type |-> ">=", rhs |-> trapeziums[i].enablement_min]>>]),
        variable_map |->
           Concat([i \in 1..Len(trapeziums) |->
               LET t == trapeziums[i]
               IN <<term(upper(i), t, "energy", 1),
                    term(upper(i), t, t.service,
                         slope(t.enablement_max - t.high_break_point, t.max_availability))>>
                  \o [k \in 1..Len(raise_service) |-> term(upper(i), t, raise_service[k], 1)]
                  \o <<term(lower(i), t, "energy", 1),
                       term(lower(i), t, t.service,
                            negative(slope(t.low_break_point - t.enablement_min, t.max_availability)))>>
                  \o [k \in 1..Len(lower_service) |-> term(lower(i), t, lower_service[k], -1)]])]

\* fcas_constraints.joint_capacity_constraints
joint_capacity_constraints(contingency_trapeziums, unit_dispatch_types, start) ==
    trapezium_constraints(contingency_trapeziums, start, <<"raise_reg">>, <<"lower_reg">>)

\* fcas_constraints.energy_and_regulation_capacity_constraints
energy_and_regulation_capacity_constraints(regulation_trapeziums, start) ==
    trapezium_constraints(regulation_trapeziums, start, <<>>, <<>>)

\* self.unit_info.loc[:, ['unit', 'dispatch_type']] is evaluated before the helper is called
set_joint_capacity_constraints(contingency_trapeziums) ==
    IF unit_info = None
    THEN Raise("set_joint_capacity_constraints", contingency_trapeziums, "AttributeError")
    ELSE IF "dispatch_type" \notin unit_info_columns
    THEN Raise("set_joint_capacity_constraints", contingency_trapeziums, "KeyError")
    ELSE save_unit_level_constraints("set_joint_capacity_constraints", "joint_capacity",
                                     contingency_trapeziums,
                                     joint_capacity_constraints(contingency_trapeziums,
                                                                Loc(unit_info, {"unit", "dispatch_type"}),
                                                                next_constraint_id))

set_energy_and_regulation_capacity_constraints(regulation_trapeziums) ==
    save_unit_level_constraints("set_energy_and_regulation_capacity_constraints",
                                "energy_and_regulation_capacity", regulation_trapeziums,
                                energy_and_regulation_capacity_constraints(regulation_trapeziums,
                                                                           next_constraint_id))

----------------------------------------------------------------------------
(* set_joint_ramping_constraints                                           *)

\* the row of unit_limits of a unit
limits_of(unit_limits, unit) == CHOOSE l \in Range(unit_limits) : l.unit = unit

\* joint ramping constraints that ignore the length of the dispatch interval
joint_ramping_constraints_per_hour(regulation_units, unit_limits, unit_dispatch_types, interval, start) ==
    LET raise(i) == regulation_units[i].service = "raise_reg"
        limits(i) == limits_of(unit_limits, regulation_units[i].unit)
        id(i) == save_index(Len(regulation_units), start)[i]
    IN [rhs_and_type |->
           [i \in 1..Len(regulation_units) |->
               [unit |-> regulation_units[i].unit, constraint_id |-> id(i),
                type |-> IF raise(i) THEN "<=" ELSE ">=",
                rhs |-> IF raise(i) THEN limits(i).initial_output + limits(i).ramp_up_rate
                        ELSE limits(i).initial_output - limits(i).ramp_down_rate]],
        variable_map |->
           [i \in 1..Len(regulation_units) |->
               [constraint_id |-> id(i), unit |-> regulation_units[i].unit,
                service |-> regulation_units[i].service,
                coefficient |-> IF raise(i) THEN 1 ELSE -1]]
           \o [i \in 1..Len(regulation_units) |->
                  [constraint_id |-> id(i), unit |-> regulation_units[i].unit,
                   service |-> "energy", coefficient |-> 1]]]

\* fcas_constraints.joint_ramping_constraints: one constraint per row of regulation_units,
\* in the order of the rows; the map lists the regulation terms first, then the energy
\* terms
joint_ramping_constraints(regulation_units, unit_limits, unit_dispatch_types, interval, start) ==
    LET raise(i) == regulation_units[i].service = "raise_reg"
        limits(i) == limits_of(unit_limits, regulation_units[i].unit)
        id(i) == save_index(Len(regulation_units), start)[i]
    IN [rhs_and_type |->
           [i \in 1..Len(regulation_units) |->
               [unit |-> regulation_units[i].unit, constraint_id |-> id(i),
                type |-> IF raise(i) THEN "<=" ELSE ">=",
                rhs |-> IF raise(i)
                        THEN limits(i).initial_output + (limits(i).ramp_up_rate * interval) \div 60
                        ELSE limits(i).initial_output - (limits(i).ramp_down_rate * interval) \div 60]],
        variable_map |->
           [i \in 1..Len(regulation_units) |->
               [constraint_id |-> id(i), unit |-> regulation_units[i].unit,
                service |-> regulation_units[i].service,
                coefficient |-> IF raise(i) THEN 1 ELSE -1]]
           \o [i \in 1..Len(regulation_units) |->
                  [constraint_id |-> id(i), unit |-> regulation_units[i].unit,
                   service |-> "energy", coefficient |-> 1]]]

\* self.unit_info.loc[:, ['unit', 'dispatch_type']] is evaluated before the helper is called
set_joint_ramping_constraints(regulation_units, unit_limits) ==
    LET argument == [regulation_units |-> regulation_units, unit_limits |-> unit_limits]
    IN IF unit_info = None
       THEN Raise("set_joint_ramping_constraints", argument, "AttributeError")
       ELSE IF "dispatch_type" \notin unit_info_columns
       THEN Raise("set_joint_ramping_constraints", argument, "KeyError")
       ELSE save_unit_level_constraints("set_joint_ramping_constraints", "joint_ramping", argument,
                                        joint_ramping_constraints(regulation_units, unit_limits,
                                                                  Loc(unit_info, {"unit", "dispatch_type"}),
                                                                  dispatch_interval, next_constraint_id))

----------------------------------------------------------------------------
(* set_interconnectors                                                     *)

\* inter.create: one flow variable per interconnector, bounded [min, max]
inter_create_variables(definitions, start) ==
    [i \in 1..Len(definitions) |->
        [interconnector |-> definitions[i].interconnector,
         variable_id |-> save_index(Len(definitions), start)[i],
         lower_bound |-> definitions[i].min, upper_bound |-> definitions[i].max,
         type |-> "continuous"]]

\* inter.create: +1 in the energy balance of the to_region, -1 in that of the from_region
inter_create_constraint_map(definitions, variables) ==
    [i \in DOMAIN definitions |->
        [variable_id |-> variables[i].variable_id, region |-> definitions[i].to_region,
         service |-> "energy", coefficient |-> 1]]
    \o
    [i \in DOMAIN definitions |->
        [variable_id |-> variables[i].variable_id, region |-> definitions[i].from_region,
         service |-> "energy", coefficient |-> -1]]

interconnector_directions_of(definitions) ==
    [i \in DOMAIN definitions |->
        [interconnector |-> definitions[i].interconnector, to_region |-> definitions[i].to_region,
         from_region |-> definitions[i].from_region,
         from_region_loss_factor |->
             IF "from_region_loss_factor" \in DOMAIN definitions[i]
             THEN definitions[i].from_region_loss_factor ELSE 1,
         to_region_loss_factor |->
             IF "to_region_loss_factor" \in DOMAIN definitions[i]
             THEN definitions[i].to_region_loss_factor ELSE 1]]

set_interconnectors(interconnector_directions_and_limits) ==
    LET variables == inter_create_variables(interconnector_directions_and_limits, next_variable_id)
        ids == Column(variables, "variable_id")
    IN  /\ interconnector_directions' = interconnector_directions_of(interconnector_directions_and_limits)
        /\ decision_variables' = Put(decision_variables, "interconnectors", variables)
        /\ variable_to_constraint_map' =
              [variable_to_constraint_map EXCEPT !.regional =
                  Put(@, "interconnectors",
                      inter_create_constraint_map(interconnector_directions_and_limits, variables))]
        /\ IF builtin_max_raises(ids)
           THEN /\ next_variable_id' = next_variable_id
                /\ Record("set_interconnectors", interconnector_directions_and_limits, "ValueError", <<>>, <<>>)
           ELSE /\ next_variable_id' = next_id_after(ids)
                /\ Record("set_interconnectors", interconnector_directions_and_limits, "none", ids, <<>>)
        /\ store_keys(<<<<"decision_variables", "interconnectors">>,
                                           <<"variable_regional", "interconnectors">>>>)
        /\ UNCHANGED <<unit_info, unit_info_columns, constraint_to_variable_map, lhs_coefficients, generic_constraint_lhs,
                       constraints_rhs_and_type, constraints_dynamic_rhs_and_type,
                       market_constraints_rhs_and_type, objective_function_components,
                       interconnector_loss_shares, next_constraint_id>>

----------------------------------------------------------------------------
(* set_interconnector_losses                                               *)

\* check.interconnectors_exist: every interconnector of the input has a flow variable
interconnectors_exist(loss_functions, interpolation_break_points) ==
    /\ "interconnectors" \in DOMAIN decision_variables
    /\ \A i \in DOMAIN loss_functions :
          \E j \in DOMAIN decision_variables["interconnectors"] :
              decision_variables["interconnectors"][j].interconnector = loss_functions[i].interconnector
    /\ \A i \in DOMAIN interpolation_break_points :
          \E j \in DOMAIN decision_variables["interconnectors"] :
              decision_variables["interconnectors"][j].interconnector =
                  interpolation_break_points[i].interconnector

\* a loss_function callable, by name, evaluated at a flow
loss_function(name, flow) ==
    CASE name = "abs_flow" -> Abs(flow)
      [] name = "no_losses" -> 0
      [] OTHER -> 0

flow_variable(interconnector) ==
    CHOOSE v \in Range(decision_variables["interconnectors"]) : v.interconnector = interconnector

\* inter.create_loss_variables: one loss variable per loss function, bounded by the largest flow
create_loss_variables(loss_functions, start) ==
    [i \in 1..Len(loss_functions) |->
        LET flow == flow_variable(loss_functions[i].interconnector)
            bound == IF Abs(flow.lower_bound) > Abs(flow.upper_bound)
                     THEN Abs(flow.lower_bound) ELSE Abs(flow.upper_bound)
        IN [interconnector |-> loss_functions[i].interconnector,
            variable_id |-> save_index(Len(loss_functions), start)[i],
            lower_bound |-> -bound, upper_bound |-> bound, type |-> "continuous"]]

\* inter.create_loss_variables: the loss is extra demand, shared between the two regions
create_loss_variables_constraint_map(loss_functions, loss_variables) ==
    Concat([i \in DOMAIN loss_functions |->
        LET id == flow_variable(loss_functions[i].interconnector).variable_id
            directions == SelectRows(variable_to_constraint_map.regional["interconnectors"],
                              [j \in DOMAIN variable_to_constraint_map.regional["interconnectors"] |->
                                  variable_to_constraint_map.regional["interconnectors"][j].variable_id = id])
        IN [j \in DOMAIN directions |->
               [variable_id |-> loss_variables[i].variable_id, region |-> directions[j].region,
                service |-> "energy",
                coefficient |-> IF directions[j].coefficient = 1
                                THEN -(1 - loss_functions[i].from_region_loss_share)
                                ELSE -(loss_functions[i].from_region_loss_share)]]])

\* inter.create_weights: one weight variable per break point, bounded [0, 1]
create_weights(interpolation_break_points, start) ==
    [i \in 1..Len(interpolation_break_points) |->
        [interconnector |-> interpolation_break_points[i].interconnector,
         loss_segment |-> interpolation_break_points[i].loss_segment,
         break_point |-> interpolation_break_points[i].break_point,
         variable_id |-> save_index(Len(interpolation_break_points), start)[i],
         lower_bound |-> 0, upper_bound |-> 1, type |-> "continuous"]]

\* one constraint per interconnector that has weights, in order of first appearance
constraint_per_interconnector(weight_variables, start) ==
    LET first == drop_duplicates(weight_variables, "interconnector")
    IN [i \in 1..Len(first) |->
           [interconnector |-> first[i].interconnector,
            constraint_id |-> save_index(Len(first), start)[i], type |-> "="]]

constraint_of(constraints, interconnector) ==
    (CHOOSE c \in Range(constraints) : c.interconnector = interconnector).constraint_id

\* inter.create_weights_must_sum_to_one
weights_sum_rhs_of(weight_variables, start) ==
    LET c == constraint_per_interconnector(weight_variables, start)
    IN [i \in DOMAIN c |-> WithColumn(c[i], "rhs", 1)]

weights_sum_lhs_of(weight_variables, rhs) ==
    [i \in DOMAIN weight_variables |->
        [variable_id |-> weight_variables[i].variable_id,
         constraint_id |-> constraint_of(rhs, weight_variables[i].interconnector),
         coefficient |-> 1]]

\* inter.link_weights_to_inter_flow: sum(weight * break_point) = flow variable
link_to_flow_rhs_of(weight_variables, start) ==
    LET c == constraint_per_interconnector(weight_variables, start)
    IN [i \in DOMAIN c |->
           WithColumn(c[i], "rhs_variable_id", flow_variable(c[i].interconnector).variable_id)]

\* a link to the flow that leaves the break points out: sum(weight) = flow variable
link_to_flow_lhs_without_break_points(weight_variables, rhs) ==
    [i \in DOMAIN weight_variables |->
        [variable_id |-> weight_variables[i].variable_id,
         constraint_id |-> constraint_of(rhs, weight_variables[i].interconnector),
         coefficient |-> 1]]

link_to_flow_lhs_of(weight_variables, rhs) ==
    [i \in DOMAIN weight_variables |->
        [variable_id |-> weight_variables[i].variable_id,
         constraint_id |-> constraint_of(rhs, weight_variables[i].interconnector),
         coefficient |-> weight_variables[i].break_point]]

\* inter.link_inter_loss_to_interpolation_weights: sum(weight * loss(break_point)) = loss variable
link_to_loss_rhs_of(weight_variables, loss_variables, start) ==
    LET c == constraint_per_interconnector(weight_variables, start)
    IN [i \in DOMAIN c |->
           WithColumn(c[i], "rhs_variable_id",
               (CHOOSE v \in Range(loss_variables) : v.interconnector = c[i].interconnector).variable_id)]

link_to_loss_lhs_of(weight_variables, loss_functions, rhs) ==
    [i \in DOMAIN weight_variables |->
        [variable_id |-> weight_variables[i].variable_id,
         constraint_id |-> constraint_of(rhs, weight_variables[i].interconnector),
         coefficient |->
             loss_function((CHOOSE f \in Range(loss_functions) :
                               f.interconnector = weight_variables[i].interconnector).loss_function,
                           weight_variables[i].break_point)]]

set_interconnector_losses_body(loss_functions, interpolation_break_points) ==
    LET argument == [loss_functions |-> loss_functions,
                     interpolation_break_points |-> interpolation_break_points]
        loss_variables == create_loss_variables(loss_functions, next_variable_id)
        variable_id_1 == Add(SeriesMax(Column(loss_variables, "variable_id")), 1)
        weight_variables == create_weights(interpolation_break_points, variable_id_1)
        weights_sum_rhs == weights_sum_rhs_of(weight_variables, next_constraint_id)
        weights_sum_lhs == weights_sum_lhs_of(weight_variables, weights_sum_rhs)
        constraint_id_1 == Add(SeriesMax(Column(weights_sum_rhs, "constraint_id")), 1)
        link_to_flow_rhs == link_to_flow_rhs_of(weight_variables, constraint_id_1)
        link_to_flow_lhs == link_to_flow_lhs_of(weight_variables, link_to_flow_rhs)
        constraint_id_2 == Add(SeriesMax(Column(link_to_flow_rhs, "constraint_id")), 1)
        link_to_loss_rhs == link_to_loss_rhs_of(weight_variables, loss_variables, constraint_id_2)
        link_to_loss_lhs == link_to_loss_lhs_of(weight_variables, loss_functions, link_to_loss_rhs)
        lhs == weights_sum_lhs \o link_to_flow_lhs \o link_to_loss_lhs
        dynamic_rhs == link_to_flow_rhs \o link_to_loss_rhs
        vids == Column(loss_variables \o weight_variables, "variable_id")
        cids == Column(weights_sum_rhs \o dynamic_rhs, "constraint_id")
    IN  /\ interconnector_loss_shares' = Loc(loss_functions, {"interconnector", "from_region_loss_share"})
        /\ decision_variables' =
              Put(Put(decision_variables, "interconnector_losses", loss_variables),
                  "interpolation_weights", weight_variables)
        /\ variable_to_constraint_map' =
              [variable_to_constraint_map EXCEPT !.regional =
                  Put(@, "interconnector_losses",
                      create_loss_variables_constraint_map(loss_functions, loss_variables))]
        /\ lhs_coefficients' = Put(lhs_coefficients, "interconnector_losses", lhs)
        /\ constraints_rhs_and_type' = Put(constraints_rhs_and_type, "interpolation_weights", weights_sum_rhs)
        /\ constraints_dynamic_rhs_and_type' =
              Put(constraints_dynamic_rhs_and_type, "link_loss_to_flow", dynamic_rhs)
        /\ next_variable_id' = Add(SeriesMax(vids), 1)
        /\ next_constraint_id' = Add(SeriesMax(cids), 1)
        /\ Record("set_interconnector_losses", argument, "none", vids, cids)
        /\ store_keys(<<<<"decision_variables", "interconnector_losses">>,
                                           <<"variable_regional", "interconnector_losses">>,
                                           <<"decision_variables", "interpolation_weights">>,
                                           <<"lhs_coefficients", "interconnector_losses">>,
                                           <<"constraints_rhs_and_type", "interpolation_weights">>,
                                           <<"constraints_dynamic_rhs_and_type", "link_loss_to_flow">>>>)
        /\ UNCHANGED <<unit_info, unit_info_columns, constraint_to_variable_map, generic_constraint_lhs,
                       market_constraints_rhs_and_type, objective_function_components,
                       interconnector_directions>>

\* the check made only after interconnector_loss_shares has been assigned
set_interconnector_losses_checked_late(loss_functions, interpolation_break_points) ==
    IF ~interconnectors_exist(loss_functions, interpolation_break_points)
    THEN /\ interconnector_loss_shares' = Loc(loss_functions, {"interconnector", "from_region_loss_share"})
         /\ Record("set_interconnector_losses",
                   [loss_functions |-> loss_functions,
                    interpolation_break_points |-> interpolation_break_points],
                   "ModelBuildError", <<>>, <<>>)
         /\ UNCHANGED <<key_order, result_columns>>
         /\ UNCHANGED <<unit_info, unit_info_columns, decision_variables, variable_to_constraint_map,
                        constraint_to_variable_map, lhs_coefficients, generic_constraint_lhs,
                        constraints_rhs_and_type, constraints_dynamic_rhs_and_type,
                        market_constraints_rhs_and_type, objective_function_components,
                        interconnector_directions, counters>>
    ELSE set_interconnector_losses_body(loss_functions, interpolation_break_points)

set_interconnector_losses(loss_functions, interpolation_break_points) ==
    IF ~interconnectors_exist(loss_functions, interpolation_break_points)
    THEN Raise("set_interconnector_losses",
               [loss_functions |-> loss_functions,
                interpolation_break_points |-> interpolation_break_points], "ModelBuildError")
    ELSE set_interconnector_losses_body(loss_functions, interpolation_break_points)

----------------------------------------------------------------------------
(* link_units_to_generic_constraints, link_regions_to_generic_constraints, *)
(* link_interconnectors_to_generic_constraints                             *)

link_units_to_generic_constraints(unit_coefficients) ==
    /\ generic_constraint_lhs' = Put(generic_constraint_lhs, "unit", unit_coefficients)
    /\ Record("link_units_to_generic_constraints", unit_coefficients, "none", <<>>, <<>>)
    /\ store_keys(<<<<"generic_constraint_lhs", "unit">>>>)
    /\ UNCHANGED <<unit_info, unit_info_columns, decision_variables, variable_to_constraint_map,
                   constraint_to_variable_map, lhs_coefficients, constraints_rhs_and_type,
                   constraints_dynamic_rhs_and_type, market_constraints_rhs_and_type,
                   objective_function_components, interconnector_directions,
                   interconnector_loss_shares, counters>>

\* a link that is bound to ids when it is stored: to the first variable and constraint
link_regions_bound_when_stored(region_coefficients) ==
    /\ generic_constraint_lhs' = Put(generic_constraint_lhs, "region", region_coefficients)
    /\ lhs_coefficients' =
          Put(lhs_coefficients, "generic",
              [i \in DOMAIN region_coefficients |->
                  [variable_id |-> 0, constraint_id |-> 0,
                   coefficient |-> region_coefficients[i].coefficient]])
    /\ Record("link_regions_to_generic_constraints", region_coefficients, "none", <<>>, <<>>)
    /\ store_keys(<<<<"generic_constraint_lhs", "region">>, <<"lhs_coefficients", "generic">>>>)
    /\ UNCHANGED <<unit_info, unit_info_columns, decision_variables, variable_to_constraint_map,
                   constraint_to_variable_map, constraints_rhs_and_type,
                   constraints_dynamic_rhs_and_type, market_constraints_rhs_and_type,
                   objective_function_components, interconnector_directions,
                   interconnector_loss_shares, counters>>

link_regions_to_generic_constraints(region_coefficients) ==
    /\ generic_constraint_lhs' = Put(generic_constraint_lhs, "region", region_coefficients)
    /\ Record("link_regions_to_generic_constraints", region_coefficients, "none", <<>>, <<>>)
    /\ store_keys(<<<<"generic_constraint_lhs", "region">>>>)
    /\ UNCHANGED <<unit_info, unit_info_columns, decision_variables, variable_to_constraint_map,
                   constraint_to_variable_map, lhs_coefficients, constraints_rhs_and_type,
                   constraints_dynamic_rhs_and_type, market_constraints_rhs_and_type,
                   objective_function_components, interconnector_directions,
                   interconnector_loss_shares, counters>>

link_interconnectors_to_generic_constraints(interconnector_coefficients) ==
    /\ generic_constraint_lhs' = Put(generic_constraint_lhs, "interconnectors", interconnector_coefficients)
    /\ Record("link_interconnectors_to_generic_constraints", interconnector_coefficients, "none", <<>>, <<>>)
    /\ store_keys(<<<<"generic_constraint_lhs", "interconnectors">>>>)
    /\ UNCHANGED <<unit_info, unit_info_columns, decision_variables, variable_to_constraint_map,
                   constraint_to_variable_map, lhs_coefficients, constraints_rhs_and_type,
                   constraints_dynamic_rhs_and_type, market_constraints_rhs_and_type,
                   objective_function_components, interconnector_directions,
                   interconnector_loss_shares, counters>>

----------------------------------------------------------------------------
(* dispatch                                                                *)

\* pd.concat(list(d.values())) and pd.concat(d): the tables of the dict, in the order
\* in which its keys were first stored
ConcatValues(d, keys) == Concat([i \in DOMAIN keys |-> d[keys[i]]])

\* solver_interface.create_mapping_of_generic_constraint_sets_to_constraint_ids:
\* the (set, constraint_id) pairs of the generic and the fcas constraints
generic_constraint_ids ==
    (IF "generic" \in DOMAIN constraints_rhs_and_type
     THEN Loc(constraints_rhs_and_type["generic"], {"set", "constraint_id"}) ELSE <<>>)
    \o
    (IF "fcas" \in DOMAIN market_constraints_rhs_and_type
     THEN Loc(market_constraints_rhs_and_type["fcas"], {"set", "constraint_id"}) ELSE <<>>)

has_generic_constraint_ids ==
    "generic" \in DOMAIN constraints_rhs_and_type \/ "fcas" \in DOMAIN market_constraints_rhs_and_type

\* an inner join: every pair of a left and a right row that agree on the join columns
Join(left, right, columns, row(_, _)) ==
    Concat([i \in DOMAIN left |->
        LET m == SelectRows(right, [j \in DOMAIN right |-> \A c \in columns : right[j][c] = left[i][c]])
        IN [j \in DOMAIN m |-> row(left[i], m[j])]])

\* solver_interface.create_unit_level_generic_constraint_lhs
create_unit_level_generic_constraint_lhs(generic_constraint_units, ids, unit_bids_to_constraint_map) ==
    LET with_ids == Join(generic_constraint_units, ids, {"set"},
                         LAMBDA l, r : WithColumn(l, "constraint_id", r.constraint_id))
    IN Join(with_ids, unit_bids_to_constraint_map, {"unit", "service"},
            LAMBDA l, r : [variable_id |-> r.variable_id, constraint_id |-> l.constraint_id,
                           coefficient |-> l.coefficient])

\* a join that matches on the first tag column and ignores the service
create_lhs_any_service(constraints, variables, join_columns) ==
    Join(constraints, variables, join_columns \ {"service"},
         LAMBDA l, r : [variable_id |-> r.variable_id, constraint_id |-> l.constraint_id,
                        coefficient |-> l.coefficient * r.coefficient])

\* solver_interface.create_lhs: constraints joined with variables on the shared tag columns
create_lhs(constraints, variables, join_columns) ==
    Join(constraints, variables, join_columns,
         LAMBDA l, r : [variable_id |-> r.variable_id, constraint_id |-> l.constraint_id,
                        coefficient |-> l.coefficient * r.coefficient])

\* the links with the constraint ids of their sets
links_with_ids(links, ids) ==
    Join(links, ids, {"set"}, LAMBDA l, r : WithColumn(l, "constraint_id", r.constraint_id))

\* solver_interface.create_region_level_generic_constraint_lhs
create_region_level_generic_constraint_lhs(generic_constraint_regions, ids, unit_bids_to_constraint_map) ==
    Join(links_with_ids(generic_constraint_regions, ids), unit_bids_to_constraint_map, {"region", "service"},
         LAMBDA l, r : [variable_id |-> r.variable_id, constraint_id |-> l.constraint_id,
                        coefficient |-> l.coefficient])

\* solver_interface.create_interconnector_generic_constraint_lhs
create_interconnector_generic_constraint_lhs(generic_constraint_interconnectors, ids, interconnectors) ==
    Join(links_with_ids(generic_constraint_interconnectors, ids), interconnectors, {"interconnector"},
         LAMBDA l, r : [variable_id |-> r.variable_id, constraint_id |-> l.constraint_id,
                        coefficient |-> l.coefficient])

generic_lhs ==
    IF ~has_generic_constraint_ids THEN <<>>
    ELSE (IF /\ "unit" \in DOMAIN generic_constraint_lhs
             /\ "bids" \in DOMAIN variable_to_constraint_map.unit_level
          THEN create_unit_level_generic_constraint_lhs(generic_constraint_lhs["unit"],
                                                        generic_constraint_ids,
                                                        variable_to_constraint_map.unit_level["bids"])
          ELSE <<>>)
         \o
         (IF /\ "region" \in DOMAIN generic_constraint_lhs
             /\ "bids" \in DOMAIN variable_to_constraint_map.regional
          THEN create_region_level_generic_constraint_lhs(generic_constraint_lhs["region"],
                                                          generic_constraint_ids,
                                                          variable_to_constraint_map.regional["bids"])
          ELSE <<>>)
         \o
         (IF /\ "interconnectors" \in DOMAIN generic_constraint_lhs
             /\ "interconnectors" \in DOMAIN decision_variables
          THEN create_interconnector_generic_constraint_lhs(generic_constraint_lhs["interconnectors"],
                                                            generic_constraint_ids,
                                                            decision_variables["interconnectors"])
          ELSE <<>>)

\* pd.concat(list(d.values())) of a dict without keys raises ValueError ('No objects to
\* concatenate'): dispatch concatenates the variable maps of a level, without a guard, as
\* soon as a constraint map of that level is stored
concat_of_nothing ==
    \/ constraint_to_variable_map.regional # EmptyDict /\ variable_to_constraint_map.regional = EmptyDict
    \/ constraint_to_variable_map.unit_level # EmptyDict
          /\ variable_to_constraint_map.unit_level = EmptyDict

\* the lhs of the constraints made per region; dispatch raises before it is used if
\* concat_of_nothing
regional_constraints_lhs ==
    IF constraint_to_variable_map.regional # EmptyDict
    THEN create_lhs(ConcatValues(constraint_to_variable_map.regional, key_order.constraint_regional),
                    ConcatValues(variable_to_constraint_map.regional, key_order.variable_regional),
                    {"region", "service"})
    ELSE <<>>

\* the families of unit level constraints whose coefficient column holds slopes, which
\* are fractions
SlopeFamilies == {"joint_capacity", "energy_and_regulation_capacity"}

\* the rows of the variable map of such a family that hold a slope: the second of the rows
\* of every constraint, which has three rows with a regulation term and two without
is_slope_row(key, i) == IF key = "joint_capacity" THEN (i - 1) % 3 = 1 ELSE (i - 1) % 2 = 1

\* the variable map of a family of slopes with every coefficient as a fraction
as_fractions(key, table) ==
    [i \in DOMAIN table |->
        IF is_slope_row(key, i) THEN table[i] ELSE [table[i] EXCEPT !.coefficient = quotient(@, 1)]]

\* a float that was computed as a fraction: a whole number, inf and nan are the values the
\* other floats of the model have
float_of(fraction) ==
    IF fraction.denominator = 1 THEN fraction.numerator
    ELSE IF fraction.denominator # 0 THEN fraction
    ELSE IF fraction.numerator = 0 THEN NaN ELSE fraction.numerator * Inf

\* pd.concat(list(self.variable_to_constraint_map['unit_level'].values()))
unit_level_variables ==
    ConcatValues(variable_to_constraint_map.unit_level, key_order.variable_unit_level)

\* solver_interface.create_lhs for a family of slopes: the coefficients multiplied as
\* fractions
create_lhs_of_slopes(key) ==
    Join(as_fractions(key, constraint_to_variable_map.unit_level[key]), unit_level_variables,
         {"unit", "service"},
         LAMBDA l, r : [variable_id |-> r.variable_id, constraint_id |-> l.constraint_id,
                        coefficient |-> quotient(l.coefficient.numerator * r.coefficient,
                                                 l.coefficient.denominator)])

\* the rows of the lhs that come from one family of unit level constraints
unit_family_lhs(key) ==
    IF key \in SlopeFamilies
    THEN LET lhs == create_lhs_of_slopes(key)
         IN [i \in DOMAIN lhs |-> [lhs[i] EXCEPT !.coefficient = float_of(@)]]
    ELSE create_lhs(constraint_to_variable_map.unit_level[key], unit_level_variables,
                    {"unit", "service"})

\* the lhs of the constraints made per unit, the join of the concatenated constraint maps
\* with the concatenated variable maps, which is the concatenation of the joins of the
\* families; dispatch raises before it is used if concat_of_nothing
unit_constraints_lhs ==
    IF constraint_to_variable_map.unit_level # EmptyDict
    THEN Concat([i \in DOMAIN key_order.constraint_unit_level |->
                    unit_family_lhs(key_order.constraint_unit_level[i])])
    ELSE <<>>

\* the constraint matrix dispatch hands to the solver
constraints_lhs ==
    ConcatValues(lhs_coefficients, key_order.lhs_coefficients)
    \o generic_lhs \o regional_constraints_lhs \o unit_constraints_lhs

\* pd.concat(self.constraints_dynamic_rhs_and_type): the constraints whose rhs is a variable
dynamic_rows ==
    ConcatValues(constraints_dynamic_rhs_and_type, key_order.constraints_dynamic_rhs_and_type)

variable_definitions == ConcatValues(decision_variables, key_order.decision_variables)

objective_function_definition ==
    ConcatValues(objective_function_components, key_order.objective_function_components)

\* the constraint rows without the fixed-rhs families (generic, unit limits, weights)
market_and_dynamic_constraints_only ==
    ConcatValues(market_constraints_rhs_and_type, key_order.market_constraints_rhs_and_type)
    \o dynamic_rows

\* every constraint row handed to the solver: fixed rhs first, then market, then dynamic rhs
all_constraints_rhs_and_type ==
    ConcatValues(constraints_rhs_and_type, key_order.constraints_rhs_and_type)
    \o ConcatValues(market_constraints_rhs_and_type, key_order.market_constraints_rhs_and_type)
    \o dynamic_rows

----------------------------------------------------------------------------
(* The solver collaborator (solver_interface.InterfaceToSolver): an exact  *)
(* search of the grid points of the model.  A variable ranges over all of  *)
(* its bounds; only a bound of inf is replaced by MaxValue grid steps, and *)
(* a model whose cost falls for ever along a direction its constraints     *)
(* allow is reported unbounded.  The members of a special ordered set are  *)
(* searched in steps of 1/WeightSteps and their values are kept as a       *)
(* number of steps; sums that mix them with other variables are taken in   *)
(* steps.                                                                  *)

NoConstraint == -2      \* stands for "no constraint" where a constraint id is expected

\* the interpolation weights as dispatch hands them to si.add_sos_type_2
special_ordered_sets ==
    IF "interpolation_weights" \notin DOMAIN decision_variables THEN <<>>
    ELSE [i \in DOMAIN decision_variables["interpolation_weights"] |->
             [sos_id |-> decision_variables["interpolation_weights"][i].interconnector,
              position |-> decision_variables["interpolation_weights"][i].loss_segment,
              variable_id |-> decision_variables["interpolation_weights"][i].variable_id]]

\* a solver that was handed no special ordered set
no_sos_type_2(values) == TRUE

\* add_sos_type_2: of every set at most two members are non-zero, and two only if no
\* member of the set lies between them
sos_type_2(values) ==
    \A a, b \in Range(special_ordered_sets) :
        (a.sos_id = b.sos_id /\ a.position < b.position
            /\ values[a.variable_id] # 0 /\ values[b.variable_id] # 0)
        => \A c \in Range(special_ordered_sets) :
              c.sos_id = a.sos_id /\ c.variable_id \notin {a.variable_id, b.variable_id}
              => values[c.variable_id] = 0 /\ ~(a.position < c.position /\ c.position < b.position)

is_sos_member(id) == \E m \in Range(special_ordered_sets) : m.variable_id = id

\* the value of a variable in steps of 1/WeightSteps
in_steps(values, id) == IF is_sos_member(id) THEN values[id] ELSE WeightSteps * values[id]

variable_ids_of(variables) == {variables[i].variable_id : i \in DOMAIN variables}

RECURSIVE gcd_of(_)
gcd_of(numbers) ==
    IF numbers = {} THEN 0
    ELSE LET n == CHOOSE x \in numbers : TRUE IN gcd(Abs(n), gcd_of(numbers \ {n}))

is_finite(bound) == -Inf < bound /\ bound < Inf

lcm(a, b) == (a * b) \div gcd(a, b)

RECURSIVE lcm_of(_)
lcm_of(numbers) ==
    IF numbers = {} THEN 1
    ELSE LET n == CHOOSE x \in numbers : TRUE IN lcm(n, lcm_of(numbers \ {n}))

\* the slopes stored in the variable maps of the unit level constraints
slope_rows ==
    UNION {{constraint_to_variable_map.unit_level[key][i] :
               i \in {j \in DOMAIN constraint_to_variable_map.unit_level[key] : is_slope_row(key, j)}} :
           key \in SlopeFamilies \cap DOMAIN constraint_to_variable_map.unit_level}

\* The search works on whole numbers: a constraint with slopes is searched after it is
\* multiplied by the least number that makes its slopes whole, which leaves its solutions
\* as they are.  This is that number, 1 for a constraint without slopes.
scale_of(constraint_id) ==
    lcm_of({r.coefficient.denominator : r \in {x \in slope_rows : x.constraint_id = constraint_id}}
           \ {0})

\* rows of the lhs with whole coefficients, multiplied by the scale of their constraint
scaled(lhs) ==
    [i \in DOMAIN lhs |-> [lhs[i] EXCEPT !.coefficient = @ * scale_of(lhs[i].constraint_id)]]

\* the rows of the lhs of one family of unit level constraints, multiplied by the scale of
\* their constraint
scaled_unit_family_lhs(key) ==
    IF key \in SlopeFamilies
    THEN LET lhs == create_lhs_of_slopes(key)
         IN [i \in DOMAIN lhs |->
                [lhs[i] EXCEPT !.coefficient =
                    IF @.denominator = 0 THEN float_of(@)
                    ELSE @.numerator * (scale_of(lhs[i].constraint_id) \div @.denominator)]]
    ELSE scaled(unit_family_lhs(key))

\* constraints_lhs as the search holds it
scaled_constraints_lhs ==
    scaled(ConcatValues(lhs_coefficients, key_order.lhs_coefficients)
           \o generic_lhs \o regional_constraints_lhs)
    \o (IF constraint_to_variable_map.unit_level # EmptyDict
        THEN Concat([i \in DOMAIN key_order.constraint_unit_level |->
                        scaled_unit_family_lhs(key_order.constraint_unit_level[i])])
        ELSE <<>>)

\* a constraint row as the search holds it
scaled_row(row) ==
    IF "rhs" \in DOMAIN row THEN [row EXCEPT !.rhs = @ * scale_of(row.constraint_id)] ELSE row

\* all_constraints_rhs_and_type as the search holds it
scaled_constraints_rhs_and_type ==
    [i \in DOMAIN all_constraints_rhs_and_type |-> scaled_row(all_constraints_rhs_and_type[i])]

\* the step of the search grid.  The vertices of a model whose coefficients are all 1 or -1
\* lie on the multiples of the greatest common divisor of its finite bounds and its rhs
\* values, and its cost is linear in a rhs between two such multiples; any other model is
\* searched in steps of one
grid_step ==
    LET variables == variable_definitions
        rows == scaled_constraints_rhs_and_type
        lhs == scaled_constraints_lhs
        numbers == {variables[i].lower_bound : i \in DOMAIN variables}
                   \cup {variables[i].upper_bound : i \in DOMAIN variables}
                   \cup {rows[i].rhs : i \in {j \in DOMAIN rows : "rhs" \in DOMAIN rows[j]}}
        divisor == gcd_of({n \in numbers : is_finite(n)})
    IN IF \/ special_ordered_sets # <<>>
          \/ dynamic_rows # <<>>
          \/ \E i \in DOMAIN lhs : lhs[i].coefficient \notin {-1, 1}
          \/ divisor = 0
       THEN 1 ELSE divisor

\* the values a variable may take: the grid points inside its bounds, a bound of inf
\* standing MaxValue steps from zero
variable_values(variables, id, step) ==
    LET steps == IF is_sos_member(id) THEN WeightSteps ELSE 1
        variable == CHOOSE v \in Range(variables) : v.variable_id = id
        lowest == IF variable.lower_bound > -Inf THEN variable.lower_bound * steps
                  ELSE -MaxValue * steps * step
        highest == IF variable.upper_bound < Inf THEN variable.upper_bound * steps
                   ELSE MaxValue * steps * step
    IN {v \in lowest..highest :
           /\ v % step = 0
           /\ \A i \in DOMAIN variables :
                 variables[i].variable_id = id
                     => variables[i].lower_bound * steps <= v /\ v <= variables[i].upper_bound * steps}

RECURSIVE Sum(_)
Sum(terms) == IF terms = <<>> THEN 0 ELSE terms[1] + Sum(Tail(terms))

\* sum of coefficient * value over the rows of an lhs or objective table
SumRows(rows, term(_)) == Sum([i \in DOMAIN rows |-> term(rows[i])])

lhs_value(lhs, constraint_id, values) ==
    SumRows(SelectRows(lhs, [i \in DOMAIN lhs |-> lhs[i].constraint_id = constraint_id]),
            LAMBDA r : r.coefficient * in_steps(values, r.variable_id))

objective_value(objective, values) ==
    SumRows(objective, LAMBDA r : r.cost * in_steps(values, r.variable_id))

\* the rhs of a constraint row: fixed, or the value of the variable it references
rhs_value(row, values) ==
    IF "rhs_variable_id" \in DOMAIN row THEN in_steps(values, row.rhs_variable_id)
    ELSE WeightSteps * row.rhs

relation_holds(l, type, r) ==
    CASE type = "<=" -> l <= r
      [] type = ">=" -> l >= r
      [] OTHER -> l = r

\* the constraint rows hold; the rhs of the constraint `raised` is increased by one step
\* of the grid
is_feasible(lhs, rows, values, raised, step) ==
    /\ sos_type_2(values)
    /\ \A i \in DOMAIN rows :
          relation_holds(lhs_value(lhs, rows[i].constraint_id, values), rows[i].type,
                         rhs_value(rows[i], values)
                            + (IF rows[i].constraint_id = raised THEN WeightSteps * step ELSE 0))

\* the points of the search box: one value inside its bounds for every variable
RECURSIVE box_points(_, _, _)
box_points(variables, ids, step) ==
    IF ids = {} THEN {EmptyDict}
    ELSE LET id == CHOOSE x \in ids : TRUE
         IN {Put(pv[1], id, pv[2]) :
                pv \in box_points(variables, ids \ {id}, step) \X variable_values(variables, id, step)}

feasible_points(variables, lhs, rows, raised, step) ==
    {values \in box_points(variables, variable_ids_of(variables), step) :
        is_feasible(lhs, rows, values, raised, step)}

\* si.optimize: the feasible points of least cost
optimal_points(variables, lhs, rows, objective, raised, step) ==
    LET feasible == feasible_points(variables, lhs, rows, raised, step)
        costs == {objective_value(objective, p) : p \in feasible}
        least == CHOOSE c \in costs : \A d \in costs : c <= d
    IN IF feasible = {} THEN {} ELSE {p \in feasible : objective_value(objective, p) = least}

\* the directions a variable can move along for ever: none if both of its bounds are
\* finite, upwards from a finite lower bound, downwards from a finite upper bound
direction_values(variables, id) ==
    LET variable == CHOOSE v \in Range(variables) : v.variable_id = id
    IN {d \in (-MaxValue)..MaxValue :
           /\ is_finite(variable.lower_bound) => d >= 0
           /\ is_finite(variable.upper_bound) => d <= 0}

RECURSIVE directions(_, _)
directions(variables, ids) ==
    IF ids = {} THEN {EmptyDict}
    ELSE LET id == CHOOSE x \in ids : TRUE
         IN {Put(pv[1], id, pv[2]) :
                pv \in directions(variables, ids \ {id}) \X direction_values(variables, id)}

\* the constraint rows with a fixed rhs of zero
homogeneous(rows) ==
    [i \in DOMAIN rows |-> IF "rhs" \in DOMAIN rows[i] THEN [rows[i] EXCEPT !.rhs = 0] ELSE rows[i]]

\* si.optimize finds no least cost although the model has a solution: a direction keeps
\* every constraint and lowers the cost
is_unbounded(variables, lhs, rows, objective) ==
    \E d \in directions(variables, variable_ids_of(variables)) :
        /\ is_feasible(lhs, homogeneous(rows), d, NoConstraint, 1)
        /\ objective_value(objective, d) < 0

\* a variable id used by the constraint matrix or a dynamic rhs that no variable table holds
has_unknown_variable(variables, lhs, rows) ==
    \/ \E i \in DOMAIN lhs : lhs[i].variable_id \notin variable_ids_of(variables)
    \/ \E i \in DOMAIN rows : "rhs_variable_id" \in DOMAIN rows[i]
                              /\ rows[i].rhs_variable_id \notin variable_ids_of(variables)

\* si.get_slack_in_constraints: the slack of a row of a constraint table, in the units of
\* the constraint as it was stored
slack_of(lhs, row, values) ==
    LET difference == rhs_value(scaled_row(row), values) - lhs_value(lhs, row.constraint_id, values)
        scale == scale_of(row.constraint_id)
    IN CASE row.type = "<=" -> float_of(quotient(difference \div WeightSteps, scale))
         [] row.type = ">=" -> float_of(quotient((-difference) \div WeightSteps, scale))
         [] OTHER -> 0

\* the least cost of the model once the rhs of every constraint of a table in turn is
\* raised by a step of the grid; no cost where that leaves no solution
raised_costs(table, variables, lhs, rows, objective, step) ==
    [i \in DOMAIN table |->
        {objective_value(objective, p) :
            p \in optimal_points(variables, lhs, rows, objective, table[i].constraint_id, step)}]

\* si.price_constraints: the cost of one more unit of rhs, nan when that has no solution
price_of(raised_cost, objective, values, step) ==
    IF raised_cost = {} THEN NaN
    ELSE ((CHOOSE c \in raised_cost : TRUE) - objective_value(objective, values))
            \div (WeightSteps * step)

\* a harvest of the slack that also attaches a price to every constraint
with_slack_and_price(table, lhs, values) ==
    [i \in DOMAIN table |->
        WithColumn(WithColumn(table[i], "slack", slack_of(lhs, table[i], values)), "price", 0)]

with_slack(table, lhs, values) ==
    [i \in DOMAIN table |-> WithColumn(table[i], "slack", slack_of(lhs, table[i], values))]

\* a harvest of the values that also moves the upper bound of a variable to its value
with_value_as_upper_bound(table, values) ==
    [i \in DOMAIN table |->
        WithColumn([table[i] EXCEPT !.upper_bound = values[table[i].variable_id]],
                   "value", values[table[i].variable_id])]

\* the value of a member of a special ordered set is written as its number of steps
with_value(table, values) ==
    [i \in DOMAIN table |-> WithColumn(table[i], "value", values[table[i].variable_id])]

with_price(table, raised_cost, objective, values, step) ==
    [i \in DOMAIN table |->
        WithColumn(table[i], "price", price_of(raised_cost[i], objective, values, step))]

\* one use of a method of the solver interface per key of a dict of tables
per_group(d, method) == [i \in 1..Cardinality(DOMAIN d) |-> method]

\* si.add_variables, then si.add_sos_type_2 if there are interpolation weights
submit_variables ==
    <<"add_variables">> \o
    (IF "interpolation_weights" \in DOMAIN decision_variables THEN <<"add_sos_type_2">> ELSE <<>>)

submit_objective ==
    IF objective_function_components # EmptyDict THEN <<"add_objective_function">> ELSE <<>>

\* si.variables[rhs_variable_id], once per row with a dynamic rhs
resolve_dynamic_rhs == [i \in DOMAIN dynamic_rows |-> "variables"]

submit_constraints ==
    IF /\ constraints_rhs_and_type = EmptyDict
       /\ market_constraints_rhs_and_type = EmptyDict
       /\ constraints_dynamic_rhs_and_type = EmptyDict
    THEN <<>> ELSE <<"add_constraints">>

read_results(price_market_constraints) ==
    per_group(constraints_rhs_and_type, "get_slack_in_constraints")
    \o per_group(market_constraints_rhs_and_type, "get_slack_in_constraints")
    \o per_group(constraints_dynamic_rhs_and_type, "get_slack_in_constraints")
    \o per_group(decision_variables, "get_optimal_values_of_decision_variables")
    \o (IF price_market_constraints THEN per_group(market_constraints_rhs_and_type, "price_constraints")
        ELSE <<>>)

\* the part of the submissions that is made before a variable id is not found
submissions_until_key_error ==
    LET ids == variable_ids_of(variable_definitions)
        dynamic == dynamic_rows
        unresolved == {i \in DOMAIN dynamic : dynamic[i].rhs_variable_id \notin ids}
    IN IF \E t \in Range(objective_function_definition) : t.variable_id \notin ids
       THEN submit_variables \o submit_objective
       ELSE IF unresolved # {}
       THEN submit_variables \o submit_objective
            \o SubSeq(resolve_dynamic_rhs, 1, CHOOSE i \in unresolved : \A j \in unresolved : i <= j)
       ELSE submit_variables \o submit_objective \o resolve_dynamic_rhs \o submit_constraints

\* a dispatch that optimizes before it submits the constraint rows
solver_calls_optimize_early(price_market_constraints, error) ==
    CASE error \in {"ValueError", "ModelBuildError"} -> <<>>
      [] error = "KeyError" -> submissions_until_key_error
      [] error \in {"InfeasibleError", "UnboundedError"} ->
            submit_variables \o submit_objective \o <<"optimize">>
      [] OTHER -> submit_variables \o submit_objective \o <<"optimize">> \o resolve_dynamic_rhs
                  \o submit_constraints \o read_results(price_market_constraints)

\* the uses dispatch makes of the solver interface, up to the one that raises
solver_calls_of_dispatch(price_market_constraints, error) ==
    CASE error \in {"ValueError", "ModelBuildError"} -> <<>>
      [] error = "KeyError" -> submissions_until_key_error
      [] error \in {"InfeasibleError", "UnboundedError"} ->
            submit_variables \o submit_objective \o resolve_dynamic_rhs \o submit_constraints
            \o <<"optimize">>
      [] OTHER -> submit_variables \o submit_objective \o resolve_dynamic_rhs \o submit_constraints
                  \o <<"optimize">> \o read_results(price_market_constraints)

\* the columns a returning dispatch assigns: slack in every constraint table, value in
\* every variable table, price in every market constraint table if prices are asked for
added_columns(price_market_constraints) ==
    {<<"constraints_rhs_and_type", k, "slack">> : k \in DOMAIN constraints_rhs_and_type}
    \cup {<<"market_constraints_rhs_and_type", k, "slack">> : k \in DOMAIN market_constraints_rhs_and_type}
    \cup {<<"constraints_dynamic_rhs_and_type", k, "slack">> :
             k \in DOMAIN constraints_dynamic_rhs_and_type}
    \cup {<<"decision_variables", k, "value">> : k \in DOMAIN decision_variables}
    \cup (IF price_market_constraints
          THEN {<<"market_constraints_rhs_and_type", k, "price">> :
                   k \in DOMAIN market_constraints_rhs_and_type}
          ELSE {})

dispatch(price_market_constraints) ==
    LET lhs == scaled_constraints_lhs
        variables == variable_definitions
        objective == objective_function_definition
        rows == scaled_constraints_rhs_and_type
        step == grid_step
        optimal == optimal_points(variables, lhs, rows, objective, NoConstraint, step)
        raised_cost == [k \in DOMAIN market_constraints_rhs_and_type |->
                           raised_costs(market_constraints_rhs_and_type[k], variables, lhs, rows,
                                        objective, step)]
        fails(error) == /\ Raise("dispatch", price_market_constraints, error)
                        /\ solver_calls' = solver_calls_of_dispatch(price_market_constraints, error)
    IN  IF concat_of_nothing
        THEN fails("ValueError")
        ELSE IF decision_variables = EmptyDict
        THEN fails("ModelBuildError")
        ELSE IF has_unknown_variable(variables, lhs \o objective, rows)
        THEN fails("KeyError")
        ELSE IF optimal = {}
        THEN fails("InfeasibleError")
        ELSE IF is_unbounded(variables, lhs, rows, objective)
        THEN fails("UnboundedError")
        ELSE \E values \in optimal :
            /\ solver_calls' = solver_calls_of_dispatch(price_market_constraints, "none")
            /\ constraints_rhs_and_type' =
                  [k \in DOMAIN constraints_rhs_and_type |->
                      with_slack(constraints_rhs_and_type[k], lhs, values)]
            /\ constraints_dynamic_rhs_and_type' =
                  [k \in DOMAIN constraints_dynamic_rhs_and_type |->
                      with_slack(constraints_dynamic_rhs_and_type[k], lhs, values)]
            /\ decision_variables' =
                  [k \in DOMAIN decision_variables |-> with_value(decision_variables[k], values)]
            /\ market_constraints_rhs_and_type' =
                  [k \in DOMAIN market_constraints_rhs_and_type |->
                      IF price_market_constraints
                      THEN with_price(with_slack(market_constraints_rhs_and_type[k], lhs, values),
                                      raised_cost[k], objective, values, step)
                      ELSE with_slack(market_constraints_rhs_and_type[k], lhs, values)]
            /\ result_columns' = result_columns \cup added_columns(price_market_constraints)
            /\ Record("dispatch", price_market_constraints, "none", <<>>, <<>>)
            /\ UNCHANGED key_order
            /\ UNCHANGED <<unit_info, unit_info_columns, variable_to_constraint_map, constraint_to_variable_map,
                           lhs_coefficients, generic_constraint_lhs, objective_function_components,
                           interconnector_directions, interconnector_loss_shares, counters>>

----------------------------------------------------------------------------
(* get_unit_dispatch, get_energy_prices                                    *)

\* d[key].loc[:, columns]: KeyError unless the dict holds the key and the table every column
loc_raises(dict, d, key, columns) ==
    \/ key \notin DOMAIN d
    \/ ~(columns \subseteq columns_of(dict, key, d[key]))

\* a grouping that keeps the largest band of each (unit, service) instead of the sum
get_unit_largest_band ==
    IF loc_raises("decision_variables", decision_variables, "bids", {"unit", "service", "value"})
    THEN [error |-> "KeyError", rows |-> {}]
    ELSE LET bids == decision_variables["bids"]
         IN [error |-> "none",
             rows |-> {[unit |-> b.unit, service |-> b.service,
                        dispatch |-> SeriesMax(Column(SelectRows(bids, [i \in DOMAIN bids |->
                                         bids[i].unit = b.unit /\ bids[i].service = b.service]),
                                         "value"))] : b \in Range(bids)}]

\* the value column of the bids, summed per (unit, service); one row per group.  KeyError
\* when no bids are stored or no dispatch has given them their value
get_unit_dispatch ==
    IF loc_raises("decision_variables", decision_variables, "bids", {"unit", "service", "value"})
    THEN [error |-> "KeyError", rows |-> {}]
    ELSE LET bids == decision_variables["bids"]
             of_group(unit, service) ==
                 SelectRows(bids, [i \in DOMAIN bids |->
                                      bids[i].unit = unit /\ bids[i].service = service])
         IN [error |-> "none",
             rows |-> {[unit |-> b.unit, service |-> b.service,
                        dispatch |-> Sum(Column(of_group(b.unit, b.service), "value"))] :
                       b \in Range(bids)}]

\* the region and price columns of the demand constraints.  KeyError when no demand is
\* stored or no dispatch has priced it
get_energy_prices ==
    IF loc_raises("market_constraints_rhs_and_type", market_constraints_rhs_and_type, "demand",
                  {"region", "price"})
    THEN [error |-> "KeyError", rows |-> <<>>]
    ELSE [error |-> "none",
          rows |-> Loc(market_constraints_rhs_and_type["demand"], {"region", "price"})]

----------------------------------------------------------------------------
(* The arguments the builders are called with.                             *)

UnitInfoInputs ==
    { <<[unit |-> "A", region |-> "NSW"], [unit |-> "B", region |-> "NSW"]>> }

VolumeBidInputs ==
    { <<[unit |-> "A", bands |-> <<0, 0>>]>>,
      <<[unit |-> "A", bands |-> <<2, 0>>]>>,
      <<[unit |-> "A", bands |-> <<1, 1>>], [unit |-> "B", bands |-> <<0, 2>>]>>,
      <<[unit |-> "C", bands |-> <<1, 1>>]>> }

PriceBidInputs ==
    { <<[unit |-> "A", bands |-> <<1, 2>>], [unit |-> "B", bands |-> <<1, 3>>]>>,
      <<[unit |-> "A", bands |-> <<2, 1>>], [unit |-> "B", bands |-> <<1, 3>>]>> }

UnitLimitInputs ==
    { <<>>,
      <<[unit |-> "A", capacity |-> 1]>>,
      <<[unit |-> "A", capacity |-> 2], [unit |-> "B", capacity |-> 1]>> }

RampUpInputs ==
    { <<[unit |-> "A", initial_output |-> 1, ramp_up_rate |-> 2]>>,
      <<[unit |-> "A", initial_output |-> 0, ramp_up_rate |-> 4], [unit |-> "B", initial_output |-> 2, ramp_up_rate |-> 0]>> }

RampDownInputs ==
    { <<[unit |-> "A", initial_output |-> 1, ramp_down_rate |-> 4]>>,
      <<[unit |-> "A", initial_output |-> 2, ramp_down_rate |-> 2], [unit |-> "B", initial_output |-> 0, ramp_down_rate |-> 2]>> }

\* unit info with a dispatch type: two generators, and a load with a generator
DispatchTypeInputs ==
    { <<[unit |-> "A", region |-> "NSW", dispatch_type |-> "generator"],
        [unit |-> "B", region |-> "NSW", dispatch_type |-> "generator"]>>,
      <<[unit |-> "A", region |-> "NSW", dispatch_type |-> "load"],
        [unit |-> "B", region |-> "NSW", dispatch_type |-> "generator"]>> }

\* the trapeziums of the doctest of get_fcas_availability
FcasAvailabilityContingency ==
    <<[unit |-> "B", service |-> "raise_6s", max_availability |-> 15, enablement_min |-> 50,
       low_break_point |-> 65, high_break_point |-> 95, enablement_max |-> 110],
      [unit |-> "A", service |-> "raise_6s", max_availability |-> 10, enablement_min |-> 70,
       low_break_point |-> 80, high_break_point |-> 100, enablement_max |-> 110]>>
FcasAvailabilityRegulation ==
    <<[unit |-> "B", service |-> "raise_reg", max_availability |-> 15, enablement_min |-> 50,
       low_break_point |-> 65, high_break_point |-> 95, enablement_max |-> 110]>>

\* the second table is the one of the doctest of set_joint_capacity_constraints
ContingencyTrapeziumInputs ==
    { <<>>,
      <<[unit |-> "A", service |-> "raise_6s", max_availability |-> 60, enablement_min |-> 20,
         low_break_point |-> 40, high_break_point |-> 60, enablement_max |-> 80]>>,
      <<[unit |-> "A", service |-> "raise_6s", max_availability |-> 3, enablement_min |-> 1,
         low_break_point |-> 3, high_break_point |-> 3, enablement_max |-> 7],
        [unit |-> "B", service |-> "lower_6s", max_availability |-> 1, enablement_min |-> 0,
         low_break_point |-> 1, high_break_point |-> 1, enablement_max |-> 3]>>,
      FcasAvailabilityContingency }

\* the last table is the one of the doctest, scaled
FcasMaxAvailabilityInputs ==
    { <<>>,
      <<[unit |-> "A", service |-> "raise_6s", max_availability |-> 2]>> }

\* the first table is the one of the doctest of set_energy_and_regulation_capacity_constraints
RegulationTrapeziumInputs ==
    { <<[unit |-> "A", service |-> "raise_reg", max_availability |-> 60, enablement_min |-> 20,
         low_break_point |-> 40, high_break_point |-> 60, enablement_max |-> 80]>>,
      <<[unit |-> "A", service |-> "raise_reg", max_availability |-> 3, enablement_min |-> 1,
         low_break_point |-> 3, high_break_point |-> 3, enablement_max |-> 7],
        [unit |-> "B", service |-> "lower_reg", max_availability |-> 1, enablement_min |-> 0,
         low_break_point |-> 1, high_break_point |-> 1, enablement_max |-> 3]>>,
      FcasAvailabilityRegulation }

DemandInputs ==
    { <<>>,
      <<[region |-> "NSW", demand |-> 2]>>,
      <<[region |-> "NSW", demand |-> 1], [region |-> "VIC", demand |-> 1]>> }

FcasInputs ==
    { <<[set |-> "F1", service |-> "raise_reg", region |-> "NSW", volume |-> 1]>>,
      <<[set |-> "F1", service |-> "raise_reg", region |-> "NSW", volume |-> 1, type |-> ">="],
        [set |-> "F1", service |-> "raise_reg", region |-> "VIC", volume |-> 1, type |-> ">="],
        [set |-> "F2", service |-> "lower_reg", region |-> "NSW", volume |-> 2, type |-> "<="]>> }

GenericInputs ==
    { <<>>,
      <<[set |-> "G1", type |-> ">=", rhs |-> 2], [set |-> "G2", type |-> "<=", rhs |-> 1]>>,
      <<[set |-> "G1", type |-> "=", rhs |-> 1], [set |-> "G2", type |-> "<=", rhs |-> 1]>> }

InterconnectorInputs ==
    { <<>>,
      <<[interconnector |-> "I1", to_region |-> "VIC", from_region |-> "NSW", max |-> 2, min |-> -2]>>,
      <<[interconnector |-> "I1", to_region |-> "VIC", from_region |-> "NSW", max |-> 2, min |-> -1],
        [interconnector |-> "I2", to_region |-> "NSW", from_region |-> "VIC", max |-> 1, min |-> 0]>> }

LossInputs ==
    { [loss_functions |->
          <<[interconnector |-> "I1", from_region_loss_share |-> 1, loss_function |-> "abs_flow"]>>,
       interpolation_break_points |->
          <<[interconnector |-> "I1", loss_segment |-> 1, break_point |-> -2],
            [interconnector |-> "I1", loss_segment |-> 2, break_point |-> 0],
            [interconnector |-> "I1", loss_segment |-> 3, break_point |-> 2]>>],
      [loss_functions |->
          <<[interconnector |-> "I1", from_region_loss_share |-> 0, loss_function |-> "abs_flow"],
            [interconnector |-> "I2", from_region_loss_share |-> 1, loss_function |-> "no_losses"]>>,
       interpolation_break_points |->
          <<[interconnector |-> "I1", loss_segment |-> 1, break_point |-> -1],
            [interconnector |-> "I1", loss_segment |-> 2, break_point |-> 2],
            [interconnector |-> "I2", loss_segment |-> 1, break_point |-> 0],
            [interconnector |-> "I2", loss_segment |-> 2, break_point |-> 1]>>],
      [loss_functions |->
          <<[interconnector |-> "I2", from_region_loss_share |-> 0, loss_function |-> "no_losses"]>>,
       interpolation_break_points |->
          <<[interconnector |-> "I2", loss_segment |-> 1, break_point |-> 0],
            [interconnector |-> "I2", loss_segment |-> 2, break_point |-> 1]>>] }

ViolationCosts ==
    { CostStr(1), CostNum(3), CostStr(0), CostBool,
      CostFrame(<<[set |-> "G1", cost |-> 5]>>),
      CostFrame(<<[set |-> "G2", cost |-> 5], [set |-> "F2", cost |-> 7]>>),
      CostFrame(<<[set |-> "G1", cost |-> 5], [set |-> "G1", cost |-> 6]>>),
      CostFrame(<<[set |-> "Z", cost |-> 1]>>) }

ElasticCall(key, cost) == [constraints_key |-> key, violation_cost |-> cost]

\* the calls of make_constraints_elastic that are tried on the constraint families
ElasticCalls ==
    {ElasticCall("generic", cost) : cost \in ViolationCosts}
    \cup {ElasticCall("fcas", CostNum(3)), ElasticCall("fcas", CostFrame(<<[set |-> "G2", cost |-> 5],
                                                                         [set |-> "F2", cost |-> 7]>>))}
    \cup {ElasticCall("demand", CostStr(1)), ElasticCall("demand", CostFrame(<<[set |-> "G1", cost |-> 5]>>))}
    \cup {ElasticCall("nonexistent", CostNum(3)), ElasticCall("nonexistent", CostBool),
          ElasticCall("nonexistent", CostFrame(<<[set |-> "G1", cost |-> 5], [set |-> "G1", cost |-> 6]>>))}

First(inputs, n) == {t \in inputs : Len(t) <= n}

----------------------------------------------------------------------------
(* Spec: at most MaxCalls builder calls on one market model, in any order. *)

\* a builder is called until it has succeeded once or a dispatch has succeeded
NotYet(op) == {op, "dispatch"} \cap succeeded = {}

VariableIdsLeft == next_variable_id < MaxVariableId
ConstraintIdsLeft == next_constraint_id < MaxConstraintId
CallsLeft == calls < MaxCalls

Next ==
    /\ CallsLeft
    /\ \/ \E info \in UnitInfoInputs : set_unit_info(info, DOMAIN info[1])
       \/ \E volume_bids \in First(VolumeBidInputs, 1) : set_unit_volume_bids(volume_bids)
       \/ \E price_bids \in PriceBidInputs : set_unit_price_bids(price_bids)
       \/ \E unit_limits \in First(UnitLimitInputs, 1) : set_unit_capacity_constraints(unit_limits)
       \/ \E demand \in First(DemandInputs, 1) : set_demand_constraints(demand)
       \/ \E requirements \in First(FcasInputs, 1) : set_fcas_requirements_constraints(requirements)
       \/ \E parameters \in GenericInputs : set_generic_constraints(parameters)
       \/ \E definitions \in First(InterconnectorInputs, 1) : set_interconnectors(definitions)
       \/ \E losses \in LossInputs :
             /\ Len(losses.loss_functions) = 1
             /\ set_interconnector_losses(losses.loss_functions, losses.interpolation_break_points)
       \/ \E key \in {"demand", "generic", "unit_capacity"} : make_constraints_elastic(key, CostNum(3))

Spec == Init /\ [][Next]_vars

----------------------------------------------------------------------------
(* SpecBids: the unit bid stack and the unit limits.                       *)

NextBids ==
    \/ \E info \in UnitInfoInputs : set_unit_info(info, DOMAIN info[1])
    \/ VariableIdsLeft /\ \E volume_bids \in VolumeBidInputs : set_unit_volume_bids(volume_bids)
    \/ \E price_bids \in PriceBidInputs : set_unit_price_bids(price_bids)
    \/ ConstraintIdsLeft /\ \E unit_limits \in UnitLimitInputs : set_unit_capacity_constraints(unit_limits)

SpecBids == Init /\ [][NextBids]_vars

----------------------------------------------------------------------------
(* SpecLimits: the capacity and ramp rate limits of the units, set before  *)
(* or after the volume bids.                                               *)

NextLimits ==
    \/ \E info \in UnitInfoInputs : set_unit_info(info, DOMAIN info[1])
    \/ VariableIdsLeft /\ \E volume_bids \in First(VolumeBidInputs, 1) : set_unit_volume_bids(volume_bids)
    \/ ConstraintIdsLeft /\ \E unit_limits \in UnitLimitInputs : set_unit_capacity_constraints(unit_limits)
    \/ ConstraintIdsLeft /\ \E unit_limits \in RampUpInputs : set_unit_ramp_up_constraints(unit_limits)
    \/ ConstraintIdsLeft /\ \E unit_limits \in RampDownInputs : set_unit_ramp_down_constraints(unit_limits)

SpecLimits == Init /\ [][NextLimits]_vars

----------------------------------------------------------------------------
(* SpecTrapeziums: the FCAS trapeziums of the units, set on a model with   *)
(* or without unit info and with or without bids, until it is dispatched.  *)

\* energy and one FCAS service offered by the unit of the trapeziums
TrapeziumVolumeBids ==
    { <<[unit |-> "A", bands |-> <<1>>], [unit |-> "A", service |-> "raise_6s", bands |-> <<1>>]>>,
      <<[unit |-> "A", bands |-> <<2>>], [unit |-> "A", service |-> "raise_reg", bands |-> <<1>>]>> }

NextTrapeziums ==
    \/ NotYet("dispatch")
          /\ \E info \in UnitInfoInputs \cup DispatchTypeInputs : set_unit_info(info, DOMAIN info[1])
    \/ NotYet("dispatch") /\ ConstraintIdsLeft /\ \E trapeziums \in ContingencyTrapeziumInputs :
          set_joint_capacity_constraints(trapeziums)
    \/ NotYet("dispatch") /\ ConstraintIdsLeft /\ \E trapeziums \in RegulationTrapeziumInputs :
          set_energy_and_regulation_capacity_constraints(trapeziums)
    \/ NotYet("dispatch") /\ ConstraintIdsLeft /\ \E fcas_max_availability \in FcasMaxAvailabilityInputs :
          set_fcas_max_availability(fcas_max_availability)
    \/ NotYet("set_unit_volume_bids")
          /\ \E volume_bids \in TrapeziumVolumeBids : set_unit_volume_bids(volume_bids)
    \/ dispatch(FALSE)

SpecTrapeziums == Init /\ [][NextTrapeziums]_vars

----------------------------------------------------------------------------
(* SpecInterconnectors: interconnectors and their loss models.             *)

NextInterconnectors ==
    \/ VariableIdsLeft /\ \E definitions \in InterconnectorInputs : set_interconnectors(definitions)
    \/ VariableIdsLeft /\ ConstraintIdsLeft /\ \E losses \in LossInputs :
          set_interconnector_losses(losses.loss_functions, losses.interpolation_break_points)

SpecInterconnectors == Init /\ [][NextInterconnectors]_vars

----------------------------------------------------------------------------
(* SpecElastic: at most MaxCalls calls that set market and generic         *)
(* constraints and make them elastic.                                      *)

NextElastic ==
    /\ CallsLeft
    /\ \/ \E demand \in First(DemandInputs, 1) : set_demand_constraints(demand)
       \/ \E requirements \in FcasInputs : set_fcas_requirements_constraints(requirements)
       \/ \E parameters \in GenericInputs : set_generic_constraints(parameters)
       \/ \E c \in ElasticCalls : make_constraints_elastic(c.constraints_key, c.violation_cost)

SpecElastic == Init /\ [][NextElastic]_vars

----------------------------------------------------------------------------
(* SpecSolve: a one-region market with two generic constraints that the    *)
(* bids and the demand cannot meet.  Every builder is called, in any       *)
(* order, until it has succeeded once or a dispatch has succeeded; the     *)
(* model may be dispatched again and again.                                *)

SolveVolumeBids == <<[unit |-> "A", bands |-> <<2, 0>>], [unit |-> "B", bands |-> <<0, 1>>]>>
SolvePriceBids == <<[unit |-> "A", bands |-> <<1, 2>>], [unit |-> "B", bands |-> <<1, 4>>]>>
SolveDemand == <<[region |-> "NSW", demand |-> 2]>>
SolveGeneric == <<[set |-> "G1", type |-> ">=", rhs |-> 2], [set |-> "G2", type |-> "<=", rhs |-> 0]>>
SolveUnitCoefficients ==
    <<[set |-> "G1", unit |-> "B", service |-> "energy", coefficient |-> 1],
      [set |-> "G2", unit |-> "A", service |-> "energy", coefficient |-> 1]>>

NextSolve ==
    \/ NotYet("set_unit_info") /\ \E info \in UnitInfoInputs : set_unit_info(info, DOMAIN info[1])
    \/ NotYet("set_unit_volume_bids") /\ set_unit_volume_bids(SolveVolumeBids)
    \/ NotYet("set_unit_price_bids") /\ set_unit_price_bids(SolvePriceBids)
    \/ NotYet("set_demand_constraints") /\ set_demand_constraints(SolveDemand)
    \/ NotYet("set_generic_constraints") /\ set_generic_constraints(SolveGeneric)
    \/ NotYet("link_units_to_generic_constraints") /\ link_units_to_generic_constraints(SolveUnitCoefficients)
    \/ NotYet("make_constraints_elastic") /\ \E cost \in {CostNum(3), CostStr(1)} :
          make_constraints_elastic("generic", cost)
    \/ \E price_market_constraints \in BOOLEAN : dispatch(price_market_constraints)

SpecSolve == Init /\ [][NextSolve]_vars

----------------------------------------------------------------------------
(* SpecLosses: interconnectors, the loss model of one of them, dispatched.  *)
(* Each of the two builders is called until it has succeeded once or a     *)
(* dispatch has succeeded; the model may be dispatched again and again.    *)

NextLosses ==
    \/ NotYet("set_interconnectors") /\ \E definitions \in InterconnectorInputs :
          set_interconnectors(definitions)
    \/ NotYet("set_interconnector_losses") /\ \E losses \in LossInputs :
          /\ Len(losses.loss_functions) = 1
          /\ set_interconnector_losses(losses.loss_functions, losses.interpolation_break_points)
    \/ \E price_market_constraints \in BOOLEAN : dispatch(price_market_constraints)

SpecLosses == Init /\ [][NextLosses]_vars

----------------------------------------------------------------------------
(* SpecEnergy: a one-region energy market of two units with three bid      *)
(* bands each, the market of the dispatch doctest.  Each builder is called *)
(* until it has succeeded once or a dispatch has succeeded, and the model  *)
(* is dispatched, once its bids are priced, until it succeeds.             *)

EnergyVolumeBids ==
    <<[unit |-> "A", bands |-> <<20, 20, 5>>], [unit |-> "B", bands |-> <<50, 30, 10>>]>>
EnergyPriceBids ==
    <<[unit |-> "A", bands |-> <<50, 100, 100>>], [unit |-> "B", bands |-> <<100, 130, 150>>]>>
EnergyDemands == {<<[region |-> "NSW", demand |-> d]>> : d \in {45, 100, 135, 140}}

NextEnergy ==
    \/ NotYet("set_unit_info") /\ \E info \in UnitInfoInputs : set_unit_info(info, DOMAIN info[1])
    \/ NotYet("set_unit_volume_bids") /\ set_unit_volume_bids(EnergyVolumeBids)
    \/ NotYet("set_unit_price_bids") /\ set_unit_price_bids(EnergyPriceBids)
    \/ NotYet("set_demand_constraints") /\ \E demand \in EnergyDemands : set_demand_constraints(demand)
    \/ NotYet("dispatch") /\ "set_unit_price_bids" \in succeeded
          /\ \E price_market_constraints \in BOOLEAN : dispatch(price_market_constraints)

SpecEnergy == Init /\ [][NextEnergy]_vars

----------------------------------------------------------------------------
(* SpecRegions: a market of two regions with energy and regulation bids,   *)
(* interconnectors in both directions, a demand constraint per region and  *)
(* a regulation requirement.  Each builder is called until it has          *)
(* succeeded once or a dispatch has succeeded, and the model is dispatched *)
(* without prices until it succeeds.                                       *)

RegionUnitInfo ==
    <<[unit |-> "A", region |-> "NSW"], [unit |-> "B", region |-> "NSW"], [unit |-> "C", region |-> "VIC"]>>

RegionVolumeBids ==
    <<[unit |-> "A", bands |-> <<1, 1>>], [unit |-> "B", bands |-> <<1>>], [unit |-> "C", bands |-> <<1>>],
      [unit |-> "A", service |-> "raise_reg", bands |-> <<1>>]>>

\* the last interconnector starts and ends in the same region
RegionInterconnectors ==
    { <<[interconnector |-> "I1", to_region |-> "VIC", from_region |-> "NSW", max |-> 1, min |-> -1]>>,
      <<[interconnector |-> "I1", to_region |-> "VIC", from_region |-> "NSW", max |-> 1, min |-> -1],
        [interconnector |-> "I2", to_region |-> "NSW", from_region |-> "VIC", max |-> 1, min |-> 0]>>,
      <<[interconnector |-> "I1", to_region |-> "VIC", from_region |-> "NSW", max |-> 1, min |-> 0],
        [interconnector |-> "I3", to_region |-> "NSW", from_region |-> "NSW", max |-> 1, min |-> 0]>> }

RegionDemands ==
    { <<[region |-> "NSW", demand |-> 2]>>,
      <<[region |-> "NSW", demand |-> 2], [region |-> "VIC", demand |-> 1]>>,
      <<[region |-> "NSW", demand |-> 1], [region |-> "VIC", demand |-> 2]>> }

RegionFcas == <<[set |-> "F1", service |-> "raise_reg", region |-> "NSW", volume |-> 1, type |-> ">="]>>

NextRegions ==
    \/ NotYet("set_unit_info") /\ set_unit_info(RegionUnitInfo, DOMAIN RegionUnitInfo[1])
    \/ NotYet("set_unit_volume_bids") /\ set_unit_volume_bids(RegionVolumeBids)
    \/ NotYet("set_interconnectors")
          /\ \E definitions \in RegionInterconnectors : set_interconnectors(definitions)
    \/ NotYet("set_demand_constraints") /\ \E demand \in RegionDemands : set_demand_constraints(demand)
    \/ NotYet("set_fcas_requirements_constraints") /\ set_fcas_requirements_constraints(RegionFcas)
    \/ NotYet("dispatch") /\ dispatch(FALSE)

SpecRegions == Init /\ [][NextRegions]_vars

----------------------------------------------------------------------------
(* SpecPrices: price bids of units with and without loss factors.  The     *)
(* prices are multiples of the loss factors, so that the quotients are     *)
(* integers.                                                               *)

LossFactorInputs ==
    UnitInfoInputs \cup
    { <<[unit |-> "A", region |-> "NSW", loss_factor |-> 2], [unit |-> "B", region |-> "NSW", loss_factor |-> 1]>>,
      <<[unit |-> "A", region |-> "NSW", loss_factor |-> 1], [unit |-> "B", region |-> "NSW", loss_factor |-> 4]>> }

\* the columns of a unit_info without rows
EmptyUnitInfoColumns == { {"unit", "region"}, {"unit", "region", "loss_factor"} }

ScaledPriceBidInputs ==
    { <<[unit |-> "A", bands |-> <<2, 4>>], [unit |-> "B", bands |-> <<4, 8>>]>>,
      <<[unit |-> "A", bands |-> <<4, 4>>]>>,
      <<[unit |-> "A", bands |-> <<4, 2>>], [unit |-> "B", bands |-> <<4, 8>>]>> }

NextPrices ==
    \/ \E info \in LossFactorInputs : set_unit_info(info, DOMAIN info[1])
    \/ \E columns \in EmptyUnitInfoColumns : set_unit_info(<<>>, columns)
    \/ VariableIdsLeft /\ \E volume_bids \in VolumeBidInputs : set_unit_volume_bids(volume_bids)
    \/ \E price_bids \in ScaledPriceBidInputs : set_unit_price_bids(price_bids)

SpecPrices == Init /\ [][NextPrices]_vars

----------------------------------------------------------------------------
(* SpecOrder: a market with priced bids, an interconnector with a loss     *)
(* model and a demand constraint, so that a dispatch uses every method of  *)
(* the solver interface.  Each builder is called until it has succeeded    *)
(* once or a dispatch has succeeded, and the model is dispatched until it  *)
(* succeeds.                                                               *)

OrderVolumeBids == <<[unit |-> "A", bands |-> <<2>>]>>
OrderPriceBids == <<[unit |-> "A", bands |-> <<2>>]>>
OrderDemands == {<<[region |-> "NSW", demand |-> d]>> : d \in {1, 2, 3}}
OrderLosses ==
    [loss_functions |->
        <<[interconnector |-> "I1", from_region_loss_share |-> 1, loss_function |-> "abs_flow"]>>,
     interpolation_break_points |->
        <<[interconnector |-> "I1", loss_segment |-> 1, break_point |-> 0],
          [interconnector |-> "I1", loss_segment |-> 2, break_point |-> 2]>>]

NextOrder ==
    \/ NotYet("set_unit_info") /\ \E info \in UnitInfoInputs : set_unit_info(info, DOMAIN info[1])
    \/ NotYet("set_unit_volume_bids") /\ set_unit_volume_bids(OrderVolumeBids)
    \/ NotYet("set_unit_price_bids") /\ set_unit_price_bids(OrderPriceBids)
    \/ NotYet("set_interconnectors")
          /\ \E definitions \in First(InterconnectorInputs, 1) : set_interconnectors(definitions)
    \/ NotYet("set_interconnector_losses")
          /\ set_interconnector_losses(OrderLosses.loss_functions, OrderLosses.interpolation_break_points)
    \/ NotYet("set_demand_constraints") /\ \E demand \in OrderDemands : set_demand_constraints(demand)
    \/ NotYet("dispatch") /\ \E price_market_constraints \in BOOLEAN : dispatch(price_market_constraints)

SpecOrder == Init /\ [][NextOrder]_vars

----------------------------------------------------------------------------
(* SpecOptimize: a one-region market whose unit capacity is below some of  *)
(* the demands, and is made elastic at a cost above or below zero.  Each   *)
(* builder is called until it has succeeded once or a dispatch has         *)
(* succeeded, and the model is dispatched until it succeeds.               *)

OptimizeCapacity == <<[unit |-> "A", capacity |-> 1]>>
OptimizeViolationCosts == {CostNum(-1), CostNum(3)}

NextOptimize ==
    \/ NotYet("set_unit_info") /\ \E info \in UnitInfoInputs : set_unit_info(info, DOMAIN info[1])
    \/ NotYet("set_unit_volume_bids") /\ set_unit_volume_bids(OrderVolumeBids)
    \/ NotYet("set_unit_price_bids") /\ set_unit_price_bids(OrderPriceBids)
    \/ NotYet("set_demand_constraints") /\ \E demand \in OrderDemands : set_demand_constraints(demand)
    \/ NotYet("set_unit_capacity_constraints") /\ set_unit_capacity_constraints(OptimizeCapacity)
    \/ NotYet("make_constraints_elastic") /\ \E violation_cost \in OptimizeViolationCosts :
          make_constraints_elastic("unit_capacity", violation_cost)
    \/ NotYet("dispatch") /\ \E price_market_constraints \in BOOLEAN : dispatch(price_market_constraints)

SpecOptimize == Init /\ [][NextOptimize]_vars

----------------------------------------------------------------------------
(* SpecLinks: generic constraints linked to units, regions and             *)
(* interconnectors.  The builders are called in any order, each until it   *)
(* has succeeded once or a dispatch has succeeded, and the model is        *)
(* dispatched without prices until it succeeds.                            *)

LinkVolumeBids == <<[unit |-> "A", bands |-> <<1>>], [unit |-> "B", bands |-> <<1>>]>>
LinkInterconnectors ==
    <<[interconnector |-> "I1", to_region |-> "VIC", from_region |-> "NSW", max |-> 1, min |-> -1]>>
LinkGeneric ==
    { <<[set |-> "G1", type |-> ">=", rhs |-> 1], [set |-> "G2", type |-> "<=", rhs |-> 1]>>,
      <<[set |-> "G2", type |-> "<=", rhs |-> 2]>> }
LinkUnitCoefficients ==
    <<[set |-> "G1", unit |-> "B", service |-> "energy", coefficient |-> 1],
      [set |-> "G2", unit |-> "A", service |-> "energy", coefficient |-> 1]>>
LinkRegionCoefficients ==
    <<[set |-> "G2", region |-> "NSW", service |-> "energy", coefficient |-> 1],
      [set |-> "G2", region |-> "VIC", service |-> "energy", coefficient |-> 2]>>
LinkInterconnectorCoefficients ==
    <<[set |-> "G1", interconnector |-> "I1", coefficient |-> 1],
      [set |-> "G2", interconnector |-> "I1", coefficient |-> -1],
      [set |-> "G2", interconnector |-> "I2", coefficient |-> 1]>>

NextLinks ==
    \/ NotYet("set_unit_info") /\ \E info \in UnitInfoInputs : set_unit_info(info, DOMAIN info[1])
    \/ NotYet("set_unit_volume_bids") /\ set_unit_volume_bids(LinkVolumeBids)
    \/ NotYet("set_interconnectors") /\ set_interconnectors(LinkInterconnectors)
    \/ NotYet("set_generic_constraints") /\ \E parameters \in LinkGeneric : set_generic_constraints(parameters)
    \/ NotYet("link_units_to_generic_constraints") /\ link_units_to_generic_constraints(LinkUnitCoefficients)
    \/ NotYet("link_regions_to_generic_constraints")
          /\ link_regions_to_generic_constraints(LinkRegionCoefficients)
    \/ NotYet("link_interconnectors_to_generic_constraints")
          /\ link_interconnectors_to_generic_constraints(LinkInterconnectorCoefficients)
    \/ NotYet("dispatch") /\ dispatch(FALSE)

SpecLinks == Init /\ [][NextLinks]_vars

----------------------------------------------------------------------------
(* SpecJointRamping: generators and loads that bid energy and regulation   *)
(* services, and the joint ramping constraints of the units that offer     *)
(* regulation, set in any order and any number of times while constraint   *)
(* ids are left.                                                           *)

JointRampingVolumeBids ==
    <<[unit |-> "A", bands |-> <<1, 1>>], [unit |-> "B", bands |-> <<1>>],
      [unit |-> "A", service |-> "raise_reg", bands |-> <<1>>],
      [unit |-> "B", service |-> "raise_reg", bands |-> <<1>>],
      [unit |-> "B", service |-> "lower_reg", bands |-> <<1>>]>>

\* the last table is the one of the doctest
RegulationUnitInputs ==
    { <<>>,
      <<[unit |-> "A", service |-> "raise_reg"]>>,
      <<[unit |-> "B", service |-> "lower_reg"]>>,
      <<[unit |-> "A", service |-> "raise_reg"], [unit |-> "B", service |-> "lower_reg"],
        [unit |-> "B", service |-> "raise_reg"]>> }

JointRampingLimitInputs ==
    { <<[unit |-> "A", initial_output |-> 1, ramp_up_rate |-> 2, ramp_down_rate |-> 4],
        [unit |-> "B", initial_output |-> 2, ramp_up_rate |-> 0, ramp_down_rate |-> 2]>>,
      <<[unit |-> "A", initial_output |-> 0, ramp_up_rate |-> 4, ramp_down_rate |-> 2],
        [unit |-> "B", initial_output |-> 1, ramp_up_rate |-> 2, ramp_down_rate |-> 4]>> }

NextJointRamping ==
    \/ NotYet("set_unit_info") /\ \E info \in UnitInfoInputs \cup DispatchTypeInputs : set_unit_info(info, DOMAIN info[1])
    \/ NotYet("set_unit_volume_bids") /\ set_unit_volume_bids(JointRampingVolumeBids)
    \/ ConstraintIdsLeft /\ \E regulation_units \in RegulationUnitInputs :
          \E unit_limits \in JointRampingLimitInputs :
             set_joint_ramping_constraints(regulation_units, unit_limits)

SpecJointRamping == Init /\ [][NextJointRamping]_vars

----------------------------------------------------------------------------
(* Claims about the id counters and failed calls.                          *)

\* C1: every variable id a successful call issues is strictly greater than every
\* variable id issued by an earlier call, likewise every constraint id, and no
\* id is issued twice.
C1_IdsStrictlyIncreasing ==
    [][call'.error = "none" =>
          /\ \A new \in Range(call'.variable_ids) : \A old \in issued_variable_ids : Greater(new, old)
          /\ \A new \in Range(call'.constraint_ids) : \A old \in issued_constraint_ids : Greater(new, old)
          /\ \A i, j \in DOMAIN call'.variable_ids :
                i # j => call'.variable_ids[i] # call'.variable_ids[j]
          /\ \A i, j \in DOMAIN call'.constraint_ids :
                i # j => call'.constraint_ids[i] # call'.constraint_ids[j]]_vars

\* C2: a builder call that raises leaves every model table and both id counters
\* as they were before the call.
C2_FailedCallChangesNothing ==
    [][call'.error # "none" => UNCHANGED <<tables, counters>>]_vars

----------------------------------------------------------------------------
(* Claims about make_constraints_elastic.                                  *)

\* the constraints stored under a key, read from the tables
constraints_of(key) ==
    IF key \in DOMAIN market_constraints_rhs_and_type THEN market_constraints_rhs_and_type[key]
    ELSE IF key \in DOMAIN constraints_rhs_and_type THEN constraints_rhs_and_type[key]
    ELSE <<>>

\* the constraints a cost selects: all of them, or those whose set the table lists
Selected(rows, cost) ==
    IF cost.kind = "frame"
    THEN SelectRows(rows, [i \in DOMAIN rows |->
                              \E j \in DOMAIN cost.rows : cost.rows[j].set = rows[i].set])
    ELSE rows

\* the cost supplied for one constraint
SuppliedCost(cost, row) ==
    IF cost.kind = "str" THEN MarketCeilingPrice
    ELSE IF cost.kind = "num" THEN cost.value
    ELSE (CHOOSE r \in Range(cost.rows) : r.set = row.set).cost

IsElasticCall(c) == c.op = "make_constraints_elastic"

\* C3 as stated: make_constraints_elastic on a family that contains an '=' constraint
\* raises UnsupportedElasticityError and creates no deficit variable, objective term
\* or incidence entry.
C3_FamilyWithEqualityIsRejected ==
    [][(/\ IsElasticCall(call')
        /\ \E i \in DOMAIN constraints_of(call'.argument.constraints_key) :
              constraints_of(call'.argument.constraints_key)[i].type = "=")
       => /\ call'.error = "UnsupportedElasticityError"
          /\ UNCHANGED <<decision_variables, objective_function_components, lhs_coefficients>>]_vars

\* the tables a successful make_constraints_elastic leaves for the constraints `rows`,
\* with the coefficient `less` on a '<=' constraint and `greater` on a '>=' constraint
DeficitTablesFor(rows, less, greater) ==
    LET key == deficit_key(call.argument.constraints_key)
        cost == call.argument.violation_cost
    IN /\ Len(decision_variables[key]) = Len(rows)
       /\ Len(objective_function_components[key]) = Len(rows)
       /\ Len(lhs_coefficients[key]) = Len(rows)
       /\ \A i \in DOMAIN rows :
             /\ decision_variables[key][i].variable_id = call.variable_ids[i]
             /\ decision_variables[key][i].lower_bound = 0
             /\ decision_variables[key][i].upper_bound = Inf
             /\ objective_function_components[key][i].variable_id = call.variable_ids[i]
             /\ objective_function_components[key][i].cost = SuppliedCost(cost, rows[i])
             /\ lhs_coefficients[key][i].variable_id = call.variable_ids[i]
             /\ lhs_coefficients[key][i].constraint_id = rows[i].constraint_id
             /\ rows[i].type = "<=" => lhs_coefficients[key][i].coefficient = less
             /\ rows[i].type = ">=" => lhs_coefficients[key][i].coefficient = greater

value_of(variable_id) ==
    (CHOOSE r \in Range(variable_definitions) : r.variable_id = variable_id).value

\* the lhs of a constraint in the solution, leaving one variable out
lhs_without(constraint_id, variable_id) ==
    SumRows(SelectRows(constraints_lhs,
                       [i \in DOMAIN constraints_lhs |->
                           /\ constraints_lhs[i].constraint_id = constraint_id
                           /\ constraints_lhs[i].variable_id # variable_id]),
            LAMBDA r : r.coefficient * value_of(r.variable_id))

\* the elastic constraints of the model: a constraint of a family made elastic, with
\* the deficit variable whose incidence entry names it
ElasticConstraints ==
    UNION {
        {[key |-> key, constraint |-> c, variable_id |-> e.variable_id] :
            <<c, e>> \in {p \in Range(constraints_of(key)) \X Range(lhs_coefficients[deficit_key(key)]) :
                            p[1].constraint_id = p[2].constraint_id}}
        : key \in DOMAIN violation_costs}

Dispatched == call.op = "dispatch" /\ call.error = "none"

\* C5: in the solution dispatch returns, the lhs of an elastic '<=' constraint without
\* its deficit term exceeds the rhs by at most the value of its deficit variable, the
\* lhs of an elastic '>=' constraint falls below the rhs by at most that value, and the
\* objective charges the supplied violation cost for every unit of deficit.
C5_ViolationBoundedByDeficit ==
    Dispatched =>
        \A x \in ElasticConstraints :
            LET lhs == lhs_without(x.constraint.constraint_id, x.variable_id)
                deficit == value_of(x.variable_id)
            IN /\ deficit >= 0
               /\ x.constraint.type = "<=" => lhs - x.constraint.rhs <= deficit
               /\ x.constraint.type = ">=" => x.constraint.rhs - lhs <= deficit
               /\ SumRows(SelectRows(objective_function_definition,
                                     [i \in DOMAIN objective_function_definition |->
                                         objective_function_definition[i].variable_id = x.variable_id]),
                          LAMBDA r : r.cost * deficit)
                  = SuppliedCost(violation_costs[x.key], x.constraint) * deficit

\* a dispatch in which a '<=' and a '>=' constraint are both violated, each by exactly
\* the value of its deficit variable
C5_Witness ==
    /\ Dispatched
    /\ \E x, y \in ElasticConstraints :
          /\ x.constraint.type = "<=" /\ value_of(x.variable_id) > 0
          /\ lhs_without(x.constraint.constraint_id, x.variable_id) - x.constraint.rhs
                = value_of(x.variable_id)
          /\ y.constraint.type = ">=" /\ value_of(y.variable_id) > 0
          /\ y.constraint.rhs - lhs_without(y.constraint.constraint_id, y.variable_id)
                = value_of(y.variable_id)

C7_UnknownKeyRaisesModelBuildError ==
    [][(IsElasticCall(call') /\ ~key_exists(call'.argument.constraints_key))
       => /\ call'.error = "ModelBuildError"
          /\ UNCHANGED <<tables, counters>>]_vars

\* C8: make_constraints_elastic on a family of '<=' and '>=' constraints with a
\* violation_cost that is neither 'market_ceiling_price', nor a number, nor a table raises ValueError and
\* creates no deficit variables.
C8_InvalidCostRaisesValueError ==
    [][(/\ IsElasticCall(call')
        /\ constraints_of(call'.argument.constraints_key) # <<>>
        /\ \A i \in DOMAIN constraints_of(call'.argument.constraints_key) :
              constraints_of(call'.argument.constraints_key)[i].type # "="
        /\ ~is_market_ceiling_price(call'.argument.violation_cost)
        /\ ~is_numeric_cost(call'.argument.violation_cost)
        /\ ~is_frame_cost(call'.argument.violation_cost))
       => /\ call'.error = "ValueError"
          /\ UNCHANGED <<decision_variables, objective_function_components, lhs_coefficients,
                         next_variable_id>>]_vars

----------------------------------------------------------------------------
(* Claims about the build order.                                           *)

\* C9: set_unit_price_bids on a model on which set_unit_volume_bids has not yet
\* succeeded raises ModelBuildError and leaves objective_function_components,
\* decision_variables and both id counters unchanged.
C9_PriceBidsBeforeVolumeBids ==
    [][(call'.op = "set_unit_price_bids" /\ "set_unit_volume_bids" \notin succeeded)
       => /\ call'.error = "ModelBuildError"
          /\ UNCHANGED <<objective_function_components, decision_variables, counters>>]_vars

\* the interconnectors that have flow variables in the model
interconnectors_added ==
    IF "interconnectors" \in DOMAIN decision_variables
    THEN Range(Column(decision_variables["interconnectors"], "interconnector"))
    ELSE {}

\* the interconnectors named by the arguments of set_interconnector_losses
interconnectors_named(argument) ==
    Range(Column(argument.loss_functions, "interconnector"))
    \cup Range(Column(argument.interpolation_break_points, "interconnector"))

\* C10: set_interconnector_losses naming an interconnector that set_interconnectors
\* has not added raises ModelBuildError, issues no variable or constraint id, changes
\* no table and leaves interconnector_loss_shares as it was.
C10_LossesBeforeInterconnectors ==
    [][(/\ call'.op = "set_interconnector_losses"
        /\ ~(interconnectors_named(call'.argument) \subseteq interconnectors_added))
       => /\ call'.error = "ModelBuildError"
          /\ call'.variable_ids = <<>> /\ call'.constraint_ids = <<>>
          /\ UNCHANGED <<tables, counters>>]_vars

\* losses for two interconnectors were refused on a model that holds only one of them
C10_Witness ==
    /\ call.op = "set_interconnector_losses"
    /\ call.error = "ModelBuildError"
    /\ interconnectors_added # {}
    /\ ~(interconnectors_named(call.argument) \subseteq interconnectors_added)
    /\ interconnector_loss_shares = None
    /\ next_variable_id = Cardinality(interconnectors_added)
    /\ next_constraint_id = 0

----------------------------------------------------------------------------
(* Claims about the bid stack.                                             *)

\* the rows of a price bid table whose bands decrease somewhere
decreasing_rows(price_bids) ==
    {i \in DOMAIN price_bids :
        \E b \in DOMAIN price_bids[i].bands :
            /\ b + 1 \in DOMAIN price_bids[i].bands
            /\ price_bids[i].bands[b] > price_bids[i].bands[b + 1]}

\* the bid variables that exist for the unit and service of a bid row
bid_variables_of(variables, row) ==
    IF "bids" \notin DOMAIN variables THEN {}
    ELSE {v \in Range(variables["bids"]) : v.unit = row.unit /\ v.service = service_of(row)}

\* C11 (as stated): a set_unit_price_bids call whose bands decrease for some
\* (unit, service) raises BidsNotMonotonicIncreasing, and at that moment no
\* decision variable of that unit and service has been created.
C11_NotMonotonicRaisesBeforeVariables ==
    [][(call'.op = "set_unit_price_bids" /\ decreasing_rows(call'.argument) # {})
        => /\ call'.error = "BidsNotMonotonicIncreasing"
           /\ \A i \in decreasing_rows(call'.argument) :
                 bid_variables_of(decision_variables', call'.argument[i]) = {}]_vars

\* C11 (amended): a set_unit_price_bids call whose bands decrease for some
\* (unit, service) raises BidsNotMonotonicIncreasing when the energy bid
\* variables exist and ModelBuildError when they do not; either way the call
\* creates no decision variable and stores no objective term.
C11_NotMonotonicRaisesOnceBidsExist ==
    [][(call'.op = "set_unit_price_bids" /\ decreasing_rows(call'.argument) # {})
        => /\ call'.error = IF "bids" \in DOMAIN decision_variables
                            THEN "BidsNotMonotonicIncreasing" ELSE "ModelBuildError"
           /\ UNCHANGED <<tables, counters>>]_vars

\* decreasing price bands were rejected for a unit whose bid variables exist
C11_Witness ==
    /\ call.op = "set_unit_price_bids"
    /\ call.error = "BidsNotMonotonicIncreasing"
    /\ \E i \in decreasing_rows(call.argument) :
          bid_variables_of(decision_variables, call.argument[i]) # {}

\* the bands of a volume bid table that offer a non-zero volume
nonzero_bands(volume_bids) ==
    {r \in Range(stack_columns(volume_bids, "volume")) : r.volume # 0}

\* C12: a set_unit_volume_bids call whose units all have unit info returns
\* normally, stores exactly one continuous decision variable with bounds
\* [0, volume] per non-zero band and none for a zero band, and advances
\* next_variable_id by the number of non-zero bands; also when every band
\* of every unit is zero.
C12_OneVariablePerNonZeroBand ==
    [][(call'.op = "set_unit_volume_bids" /\ all_units_have_info(call'.argument))
        => /\ call'.error = "none"
           /\ Len(decision_variables'["bids"]) = Cardinality(nonzero_bands(call'.argument))
           /\ {[unit |-> v.unit, service |-> v.service, capacity_band |-> v.capacity_band,
                volume |-> v.upper_bound] : v \in Range(decision_variables'["bids"])}
                 = nonzero_bands(call'.argument)
           /\ \A v \in Range(decision_variables'["bids"]) : v.lower_bound = 0 /\ v.type = "continuous"
           /\ next_variable_id' = next_variable_id + Cardinality(nonzero_bands(call'.argument))]_vars

\* the variable ids the objective terms of the energy bids refer to
priced_bid_ids(components) ==
    IF "bids" \in DOMAIN components THEN Range(Column(components["bids"], "variable_id")) ELSE {}

\* C13: when set_unit_volume_bids returns, no objective term of the energy
\* bids refers to a variable id that was issued before the call, i.e. by an
\* earlier set_unit_volume_bids: the terms that depended on the earlier bid
\* variables have been cleared.
C13_VolumeBidsClearDependentTerms ==
    [][(call'.op = "set_unit_volume_bids" /\ call'.error = "none")
        => priced_bid_ids(objective_function_components') \cap issued_variable_ids = {}]_vars

----------------------------------------------------------------------------
(* Claims about the unit limits.                                           *)

\* C14: set_unit_ramp_down_constraints, called while no set_unit_volume_bids
\* has succeeded, raises ModelBuildError and allocates no constraint id.
C14_RampDownBeforeVolumeBids ==
    [][(call'.op = "set_unit_ramp_down_constraints" /\ "set_unit_volume_bids" \notin succeeded)
        => /\ call'.error = "ModelBuildError"
           /\ call'.constraint_ids = <<>>
           /\ next_constraint_id' = next_constraint_id]_vars

----------------------------------------------------------------------------
(* Claims about dispatch.                                                  *)

\* C15: dispatch, called on a model that holds energy bids but no energy
\* demand constraint, raises ModelBuildError, and nothing the solver
\* returns (value, slack, price) has been attached to the model.
C15_IncompleteBuildIsRejected ==
    [][(/\ call'.op = "dispatch"
        /\ "bids" \in DOMAIN decision_variables
        /\ "demand" \notin DOMAIN market_constraints_rhs_and_type)
        => /\ call'.error = "ModelBuildError"
           /\ UNCHANGED <<tables, counters>>]_vars

\* the rows of all the families a dict of constraint tables holds
rows_of(families) == UNION {Range(families[k]) : k \in DOMAIN families}

\* C16: the families of constraints_rhs_and_type and of
\* constraints_dynamic_rhs_and_type never carry a price; a dispatch that
\* returns attaches a price to every market constraint when
\* price_market_constraints is true, and when it is false it sets no price:
\* a market constraint then has a price only if it had the same one before.
C16_PricesOnlyOnMarketConstraints ==
    [][/\ \A row \in rows_of(constraints_rhs_and_type') \cup rows_of(constraints_dynamic_rhs_and_type') :
             "price" \notin DOMAIN row
       /\ (call'.op = "dispatch" /\ call'.error = "none")
             => \A k \in DOMAIN market_constraints_rhs_and_type' :
                   \A i \in DOMAIN market_constraints_rhs_and_type'[k] :
                      LET new == market_constraints_rhs_and_type'[k][i]
                          old == market_constraints_rhs_and_type[k][i]
                      IN IF call'.argument THEN "price" \in DOMAIN new
                         ELSE /\ "price" \in DOMAIN new <=> "price" \in DOMAIN old
                              /\ "price" \in DOMAIN old => new.price = old.price]_vars

\* a dispatch without prices has returned: the demand constraint and the
\* generic constraints carry their slack, and the demand constraint no price
C16_Witness ==
    /\ call.op = "dispatch" /\ call.error = "none" /\ call.argument = FALSE
    /\ "generic" \in DOMAIN constraints_rhs_and_type
    /\ \A row \in Range(constraints_rhs_and_type["generic"]) : "slack" \in DOMAIN row
    /\ "demand" \in DOMAIN market_constraints_rhs_and_type
    /\ \A row \in Range(market_constraints_rhs_and_type["demand"]) :
          "slack" \in DOMAIN row /\ "price" \notin DOMAIN row

----------------------------------------------------------------------------
(* Claims about the interconnector loss models.                            *)

\* the interpolation weights of an interconnector
weights_of(interconnector) ==
    SelectRows(decision_variables["interpolation_weights"],
               [i \in DOMAIN decision_variables["interpolation_weights"] |->
                   decision_variables["interpolation_weights"][i].interconnector = interconnector])

\* the value dispatch wrote for the variable an interconnector has in a variable family
solved(family, interconnector) ==
    (CHOOSE v \in Range(decision_variables[family]) : v.interconnector = interconnector).value

\* the loss function at the break point of a weight: its coefficient in the constraint
\* that links the weights to the loss variable
loss_at(w) ==
    LET loss == CHOOSE v \in Range(decision_variables["interconnector_losses"]) :
                    v.interconnector = w.interconnector
        link == CHOOSE c \in Range(constraints_dynamic_rhs_and_type["link_loss_to_flow"]) :
                    c.rhs_variable_id = loss.variable_id
    IN (CHOOSE r \in Range(lhs_coefficients["interconnector_losses"]) :
            r.constraint_id = link.constraint_id /\ r.variable_id = w.variable_id).coefficient

\* a dispatch has returned on a model that holds loss models
LossesSolved == Dispatched /\ "interpolation_weights" \in DOMAIN decision_variables

\* C17: in every solution dispatch returns, the interpolation weights of an
\* interconnector sum to 1 (WeightSteps steps), at most two of them are
\* non-zero and two non-zero weights are neighbours in loss_segment order;
\* and when the solved flow lies strictly between the break points b1 < b2
\* of two neighbouring weights, every other weight is 0 and the solved loss
\* is the linear interpolation between f(b1) and f(b2).
C17_LossIsInterpolatedBetweenNeighbours ==
    LossesSolved =>
        \A w \in Range(decision_variables["interpolation_weights"]) :
            LET set == Range(weights_of(w.interconnector))
                flow == solved("interconnectors", w.interconnector)
                loss == solved("interconnector_losses", w.interconnector)
                between(a, c, b) == a.loss_segment < c.loss_segment /\ c.loss_segment < b.loss_segment
            IN /\ Sum(Column(weights_of(w.interconnector), "value")) = WeightSteps
               /\ \A v \in set :
                     (w.loss_segment < v.loss_segment /\ w.value # 0 /\ v.value # 0)
                     => \A x \in set \ {w, v} : x.value = 0 /\ ~between(w, x, v)
               /\ \A v \in set :
                     (/\ w.loss_segment < v.loss_segment
                      /\ ~\E c \in set : between(w, c, v)
                      /\ w.break_point < flow /\ flow < v.break_point)
                     => /\ \A x \in set \ {w, v} : x.value = 0
                        /\ loss * (v.break_point - w.break_point)
                              = loss_at(w) * (v.break_point - flow) + loss_at(v) * (flow - w.break_point)

\* a solved flow strictly between the first two of three break points
C17_Witness ==
    /\ LossesSolved
    /\ \E w, v, u \in Range(decision_variables["interpolation_weights"]) :
          /\ w.interconnector = v.interconnector /\ v.interconnector = u.interconnector
          /\ w.loss_segment < v.loss_segment /\ v.loss_segment < u.loss_segment
          /\ w.break_point < solved("interconnectors", w.interconnector)
          /\ solved("interconnectors", w.interconnector) < v.break_point
          /\ w.value # 0 /\ v.value # 0 /\ loss_at(w) # loss_at(v)

----------------------------------------------------------------------------
(* Claims about the FCAS trapeziums.                                       *)

\* the lhs terms a unit level constraint map holds for a constraint
terms_of(variable_map, constraint_id) ==
    {<<r.unit, r.service, r.coefficient>> :
        r \in {x \in Range(variable_map) : x.constraint_id = constraint_id}}

\* the coefficients a unit level constraint map holds for a service in a constraint
coefficients_of(variable_map, constraint_id, service) ==
    {r.coefficient : r \in {x \in Range(variable_map) :
                                x.constraint_id = constraint_id /\ x.service = service}}

\* the fraction is dividend / divisor, for a divisor above zero
is_quotient(fraction, dividend, divisor) ==
    /\ fraction.denominator > 0
    /\ fraction.numerator * divisor = dividend * fraction.denominator

unit_limit_of(op, t) ==
    CASE op = "set_unit_capacity_constraints" -> t.capacity
      [] op = "set_unit_ramp_up_constraints"
            -> t.initial_output + (t.ramp_up_rate * dispatch_interval) \div 60
      [] OTHER -> t.initial_output - (t.ramp_down_rate * dispatch_interval) \div 60

\* C19: a unit limit builder that returns has stored one constraint per unit
\* of its input: set_unit_capacity_constraints '<=' capacity,
\* set_unit_ramp_up_constraints '<=' initial_output + ramp_up_rate *
\* (dispatch_interval / 60), set_unit_ramp_down_constraints '>='
\* initial_output - ramp_down_rate * (dispatch_interval / 60), which may be
\* negative; the lhs of each, as dispatch resolves it, has coefficient 1 on
\* every energy bid variable of the unit and no other term.
C19_OneLimitPerUnit ==
    /\ [][(/\ call'.op \in {"set_unit_capacity_constraints", "set_unit_ramp_up_constraints",
                             "set_unit_ramp_down_constraints"}
            /\ call'.error = "none")
            => LET key == CASE call'.op = "set_unit_capacity_constraints" -> "unit_capacity"
                            [] call'.op = "set_unit_ramp_up_constraints" -> "ramp_up"
                            [] OTHER -> "ramp_down"
                   rows == constraints_rhs_and_type'[key]
               IN /\ Len(rows) = Len(call'.argument)
                  /\ \A i \in DOMAIN rows :
                        /\ rows[i].unit = call'.argument[i].unit
                        /\ rows[i].constraint_id = call'.constraint_ids[i]
                        /\ rows[i].type = IF key = "ramp_down" THEN ">=" ELSE "<="
                        /\ rows[i].rhs = unit_limit_of(call'.op, call'.argument[i])]_vars
    /\ [](\A key \in {"unit_capacity", "ramp_up", "ramp_down"} \cap DOMAIN constraints_rhs_and_type :
             \A row \in Range(constraints_rhs_and_type[key]) :
                {<<r.variable_id, r.coefficient>> :
                    r \in {x \in Range(unit_constraints_lhs) : x.constraint_id = row.constraint_id}}
                = {<<v.variable_id, 1>> :
                      v \in bid_variables_of(decision_variables,
                                             [unit |-> row.unit, service |-> "energy"])})

\* the ramp down limit of a unit with energy bids is negative
C19_Witness ==
    /\ call.op = "set_unit_ramp_down_constraints" /\ call.error = "none"
    /\ \E r \in Range(constraints_rhs_and_type["ramp_down"]) :
          /\ r.rhs < 0
          /\ bid_variables_of(decision_variables, [unit |-> r.unit, service |-> "energy"]) # {}
    /\ {"unit_capacity", "ramp_up"} \subseteq DOMAIN constraints_rhs_and_type

----------------------------------------------------------------------------
(* Claims about the energy market of one region.                           *)

energy_bids == decision_variables["bids"]

band_cost(variable_id) ==
    (CHOOSE t \in Range(objective_function_components["bids"]) : t.variable_id = variable_id).cost

\* every way of filling a set of bands within their volumes, in steps of the grid
RECURSIVE fillings(_, _)
fillings(bands, step) ==
    IF bands = {} THEN {EmptyDict}
    ELSE LET b == CHOOSE x \in bands : TRUE
         IN {Put(fv[1], b.variable_id, fv[2]) :
                fv \in fillings(bands \ {b}, step) \X {v \in 0..b.upper_bound : v % step = 0}}

\* the fillings of the bands that add up to the demand
allocations(demand) ==
    {a \in fillings(Range(energy_bids), grid_step) :
        Sum([i \in DOMAIN energy_bids |-> a[energy_bids[i].variable_id]]) = demand}

cost_of(a) ==
    Sum([i \in DOMAIN energy_bids |-> band_cost(energy_bids[i].variable_id) * a[energy_bids[i].variable_id]])

solution == [id \in Range(Column(energy_bids, "variable_id")) |->
                (CHOOSE b \in Range(energy_bids) : b.variable_id = id).value]

unit_total(unit) ==
    Sum(Column(SelectRows(energy_bids, [i \in DOMAIN energy_bids |-> energy_bids[i].unit = unit]), "value"))

\* the bands that are not filled, the cheapest of which is the marginal band
spare_bands == {b \in Range(energy_bids) : b.value < b.upper_bound}

marginal_price ==
    band_cost((CHOOSE b \in spare_bands :
                  \A c \in spare_bands : band_cost(b.variable_id) <= band_cost(c.variable_id)).variable_id)

EnergyMarketDispatched ==
    /\ Dispatched
    /\ "bids" \in DOMAIN objective_function_components
    /\ "demand" \in DOMAIN market_constraints_rhs_and_type

\* C20: after a dispatch of a one-region market with priced energy bids and a
\* demand constraint every band lies in [0, volume], the bands add up to the
\* demand, no other such filling of the bands costs less and no megawatt moved
\* from a band in use to a band with room lowers the cost, get_unit_dispatch
\* has one row per unit with the sum of its bands, and, when prices were asked
\* for, get_energy_prices gives the region the price of the cheapest band that
\* is not filled; bands A=[20,20,5]@[50,100,100], B=[50,30,10]@[100,130,150]
\* and a demand of 100 give A=45, B=55 and a price of 130.
C20_LeastCostDispatchAndMarginalPrice ==
    EnergyMarketDispatched =>
        LET demand == market_constraints_rhs_and_type["demand"][1].rhs
        IN /\ \A b \in Range(energy_bids) : 0 <= b.value /\ b.value <= b.upper_bound
           /\ Sum(Column(energy_bids, "value")) = demand
           /\ \A a \in allocations(demand) : cost_of(solution) <= cost_of(a)
           /\ \A b, c \in Range(energy_bids) :
                 (b.value > 0 /\ c.value < c.upper_bound)
                    => band_cost(c.variable_id) >= band_cost(b.variable_id)
           /\ get_unit_dispatch =
                 [error |-> "none",
                  rows |-> {[unit |-> b.unit, service |-> "energy", dispatch |-> unit_total(b.unit)] :
                               b \in Range(energy_bids)}]
           /\ (call.argument /\ spare_bands # {})
                 => get_energy_prices =
                       [error |-> "none", rows |-> <<[region |-> "NSW", price |-> marginal_price]>>]
           /\ demand = 100
                 => /\ get_unit_dispatch.rows = {[unit |-> "A", service |-> "energy", dispatch |-> 45],
                                                 [unit |-> "B", service |-> "energy", dispatch |-> 55]}
                    /\ call.argument => get_energy_prices.rows = <<[region |-> "NSW", price |-> 130]>>

\* the market of the claim has been dispatched with prices
C20_Witness ==
    /\ EnergyMarketDispatched
    /\ call.argument
    /\ Column(energy_bids, "upper_bound") = <<20, 20, 5, 50, 30, 10>>
    /\ Column(objective_function_components["bids"], "cost") = <<50, 100, 100, 100, 130, 150>>
    /\ market_constraints_rhs_and_type["demand"][1].rhs = 100
    /\ get_unit_dispatch = [error |-> "none",
                            rows |-> {[unit |-> "A", service |-> "energy", dispatch |-> 45],
                                      [unit |-> "B", service |-> "energy", dispatch |-> 55]}]
    /\ get_energy_prices = [error |-> "none", rows |-> <<[region |-> "NSW", price |-> 130]>>]

----------------------------------------------------------------------------
(* Claims about the incidence entries built at dispatch.                   *)

regional_constraints == ConcatValues(constraint_to_variable_map.regional, key_order.constraint_regional)
regional_variables == ConcatValues(variable_to_constraint_map.regional, key_order.variable_regional)

\* how often the regional lhs holds the entry (constraint_id, variable_id, coefficient)
entries(constraint_id, variable_id, coefficient) ==
    Cardinality({i \in DOMAIN regional_constraints_lhs :
                    regional_constraints_lhs[i] = [constraint_id |-> constraint_id,
                                                   variable_id |-> variable_id,
                                                   coefficient |-> coefficient]})

\* the pairs of a constraint row and a variable row of one (region, service)
same_region_and_service ==
    {p \in (DOMAIN regional_constraints) \X (DOMAIN regional_variables) :
        /\ regional_constraints[p[1]].region = regional_variables[p[2]].region
        /\ regional_constraints[p[1]].service = regional_variables[p[2]].service}

entry_of(p) ==
    [constraint_id |-> regional_constraints[p[1]].constraint_id,
     variable_id |-> regional_variables[p[2]].variable_id,
     coefficient |-> regional_constraints[p[1]].coefficient * regional_variables[p[2]].coefficient]

demand_constraints ==
    IF "demand" \in DOMAIN market_constraints_rhs_and_type
    THEN Range(market_constraints_rhs_and_type["demand"]) ELSE {}

variables_in(family) ==
    IF family \in DOMAIN decision_variables THEN Range(decision_variables[family]) ELSE {}

directions_of(interconnector) ==
    CHOOSE d \in Range(interconnector_directions) : d.interconnector = interconnector

\* C21: the regional lhs dispatch builds has one entry for every pair of a
\* constraint row and a variable row of the same (region, service), and no other
\* entry; equal entries are kept apart, so their number is the number of such
\* pairs.  A demand constraint of a region has exactly one entry with +1 for
\* every energy bid variable of a unit of the region and none for the bids of
\* other regions or services, one entry with +1 for every flow variable into
\* the region and one with -1 for every flow variable out of it.
C21_RegionalIncidence ==
    /\ Len(regional_constraints_lhs) = Cardinality(same_region_and_service)
    /\ \A p \in same_region_and_service :
          entries(entry_of(p).constraint_id, entry_of(p).variable_id, entry_of(p).coefficient)
             = Cardinality({q \in same_region_and_service : entry_of(q) = entry_of(p)})
    /\ \A d \in demand_constraints :
          /\ \A b \in variables_in("bids") :
                /\ entries(d.constraint_id, b.variable_id, 1) =
                      (IF b.service = "energy" /\ region_of(b.unit) = d.region THEN 1 ELSE 0)
                /\ \A i \in DOMAIN regional_constraints_lhs :
                      (/\ regional_constraints_lhs[i].constraint_id = d.constraint_id
                       /\ regional_constraints_lhs[i].variable_id = b.variable_id)
                         => regional_constraints_lhs[i].coefficient = 1
          /\ \A f \in variables_in("interconnectors") :
                /\ entries(d.constraint_id, f.variable_id, 1) =
                      (IF directions_of(f.interconnector).to_region = d.region THEN 1 ELSE 0)
                /\ entries(d.constraint_id, f.variable_id, -1) =
                      (IF directions_of(f.interconnector).from_region = d.region THEN 1 ELSE 0)

\* a dispatch of a market whose demand constraint of one region has entries for two
\* units and for a flow out of the region, and two entries for a flow that stays in it
C21_Witness ==
    /\ Dispatched
    /\ \E d \in demand_constraints :
          /\ \E b, c \in variables_in("bids") :
                b.unit # c.unit /\ entries(d.constraint_id, b.variable_id, 1) = 1
                                /\ entries(d.constraint_id, c.variable_id, 1) = 1
          /\ \E f \in variables_in("interconnectors") :
                entries(d.constraint_id, f.variable_id, 1) = 1 /\ entries(d.constraint_id, f.variable_id, -1) = 1
          /\ \E f \in variables_in("interconnectors") :
                entries(d.constraint_id, f.variable_id, 1) = 0 /\ entries(d.constraint_id, f.variable_id, -1) = 1
    /\ \E b \in variables_in("bids") : b.service = "raise_reg"
    /\ \E b \in variables_in("bids") : region_of(b.unit) = "VIC"

----------------------------------------------------------------------------
(* Claims about the objective terms of the bids.                           *)

\* the price a table of price bids gives for a bid variable, NaN if it gives none
bid_price(price_bids, variable) ==
    IF \E i \in DOMAIN price_bids : /\ price_bids[i].unit = variable.unit
                                    /\ service_of(price_bids[i]) = variable.service
                                    /\ variable.capacity_band \in DOMAIN price_bids[i].bands
    THEN LET i == CHOOSE i \in DOMAIN price_bids : /\ price_bids[i].unit = variable.unit
                                                   /\ service_of(price_bids[i]) = variable.service
         IN price_bids[i].bands[variable.capacity_band]
    ELSE NaN

loss_factor_of(unit) == (CHOOSE r \in Range(unit_info) : r.unit = unit).loss_factor

\* C22: a set_unit_price_bids call that returns stores exactly one cost term
\* for every bid variable that exists and has a price, and none for any other
\* variable id: a band without volume has no variable and so no term.  The
\* cost is the price of the (unit, service, band) when unit_info has no
\* loss_factor column, and otherwise, for a unit that has a loss factor, the
\* cost times the loss factor of the unit is the price.
C22_CostIsPriceOverLossFactor ==
    [][(call'.op = "set_unit_price_bids" /\ call'.error = "none")
        => LET terms == objective_function_components'["bids"]
               variables == decision_variables["bids"]
               priced == {v \in Range(variables) : bid_price(call'.argument, v) # NaN}
           IN /\ \A v \in priced :
                    \E i \in DOMAIN terms :
                       /\ terms[i].variable_id = v.variable_id
                       /\ \A j \in DOMAIN terms : terms[j].variable_id = v.variable_id => j = i
                       /\ terms[i].unit = v.unit /\ terms[i].service = v.service
                       /\ terms[i].capacity_band = v.capacity_band
                       /\ IF has_loss_factor_column
                          THEN has_info(v.unit)
                                  => /\ loss_factor_of(v.unit) > 0
                                     /\ terms[i].cost * loss_factor_of(v.unit)
                                           = bid_price(call'.argument, v)
                          ELSE terms[i].cost = bid_price(call'.argument, v)
              /\ \A i \in DOMAIN terms : \E v \in priced : terms[i].variable_id = v.variable_id]_vars

\* price bids were stored for a unit with a loss factor other than 1, for a pair of
\* bands of which one has no volume
C22_Witness ==
    /\ call.op = "set_unit_price_bids" /\ call.error = "none"
    /\ \E t \in Range(objective_function_components["bids"]) :
          /\ has_loss_factor_column /\ has_info(t.unit)
          /\ loss_factor_of(t.unit) > 1
          /\ t.cost * loss_factor_of(t.unit) = bid_price(call.argument, t)
          /\ t.cost # bid_price(call.argument, t)
    /\ Len(objective_function_components["bids"]) < Len(stack_columns(call.argument, "cost"))

----------------------------------------------------------------------------
(* Claims about the steps of one dispatch.                                 *)

\* the positions at which a call used one of the methods of the solver interface
positions(log, methods) == {i \in DOMAIN log : log[i] \in methods}

before(log, earlier, later) ==
    \A i \in positions(log, earlier) : \A j \in positions(log, later) : i < j

Submissions == {"add_sos_type_2", "add_objective_function", "add_constraints"}
Reads == {"get_slack_in_constraints", "get_optimal_values_of_decision_variables", "price_constraints"}

\* C23: in every dispatch call that reaches the solver the variables are
\* submitted once and before any SOS2 group, objective term or constraint
\* row; every row with a dynamic rhs looks up its variable in the solver
\* before the constraint rows are submitted; optimize is called at most once,
\* after every submission, and exactly once when dispatch returns or optimize
\* raises; slack, then values, then prices are read after optimize.
\* In the solution of a dispatch that returns, the lhs of every constraint with
\* a dynamic rhs equals the value of the variable with the referenced id.
C23_StepsOfDispatchInOrder ==
    /\ [][call'.op = "dispatch" =>
            LET log == solver_calls'
            IN /\ (log = <<>>) = (call'.error \in {"ValueError", "ModelBuildError"})
               /\ log # <<>> => log[1] = "add_variables"
               /\ Cardinality(positions(log, {"add_variables"})) <= 1
               /\ before(log, {"add_variables"}, Submissions)
               /\ before(log, {"variables"}, {"add_constraints"})
               /\ positions(log, {"add_constraints"}) # {}
                     => Cardinality(positions(log, {"variables"})) = Len(dynamic_rows)
               /\ Cardinality(positions(log, {"optimize"})) =
                     (IF call'.error \in {"none", "InfeasibleError", "UnboundedError"} THEN 1 ELSE 0)
               /\ before(log, Submissions \cup {"add_variables", "variables"}, {"optimize"})
               /\ before(log, {"optimize"}, Reads)
               /\ positions(log, Reads) # {} => positions(log, {"optimize"}) # {}
               /\ before(log, {"get_slack_in_constraints"}, {"get_optimal_values_of_decision_variables"})
               /\ before(log, {"get_optimal_values_of_decision_variables"}, {"price_constraints"})
               /\ (positions(log, {"get_optimal_values_of_decision_variables"}) # {})
                     = (call'.error = "none")]_vars
    /\ [](Dispatched =>
            \A i \in DOMAIN dynamic_rows :
               lhs_without(dynamic_rows[i].constraint_id, NoConstraint)
                  = WeightSteps * value_of(dynamic_rows[i].rhs_variable_id))

\* a dispatch that returned after it used every method of the solver interface
C23_Witness ==
    /\ Dispatched
    /\ Range(solver_calls) = Submissions \cup Reads \cup {"add_variables", "variables", "optimize"}
    /\ Len(dynamic_rows) = 2

----------------------------------------------------------------------------
(* Claims about the tables of the interconnector loss models.              *)

of_interconnector(rows, interconnector) == {r \in Range(rows) : r.interconnector = interconnector}

\* the incidence entries of a constraint as (variable_id, coefficient) pairs
loss_lhs_of(coefficients, constraint_id) ==
    {<<r.variable_id, r.coefficient>> : r \in {x \in Range(coefficients) : x.constraint_id = constraint_id}}

\* the ids n, n + 1, ..., in the order of a sequence
consecutive_from(ids, n) == \A i \in DOMAIN ids : ids[i] = n + i - 1

\* C24: a set_interconnector_losses call that returns leaves, for every
\* interconnector of its loss functions: one loss variable; one weight
\* variable per break point, bounded [0, 1]; one constraint 'sum of the
\* weights = 1'; one equality with the weights times their break points on
\* the lhs and the id of the flow variable as dynamic rhs; one equality with
\* the weights times the loss function at their break points on the lhs and
\* the id of the loss variable as dynamic rhs.  The variable ids count up from
\* next_variable_id, loss variables first, then weights; the constraint ids
\* count up from next_constraint_id, the sums of weights first, then the links
\* to the flows, then the links to the losses.
C24_LossModelPerInterconnector ==
    [][(call'.op = "set_interconnector_losses" /\ call'.error = "none")
        => LET losses == decision_variables'["interconnector_losses"]
               weights == decision_variables'["interpolation_weights"]
               sums == constraints_rhs_and_type'["interpolation_weights"]
               links == constraints_dynamic_rhs_and_type'["link_loss_to_flow"]
               lhs == lhs_coefficients'["interconnector_losses"]
               n == Len(call'.argument.loss_functions)
           IN /\ \A f \in Range(call'.argument.loss_functions) :
                    LET name == f.interconnector
                        points == of_interconnector(call'.argument.interpolation_break_points, name)
                        w == of_interconnector(weights, name)
                        flow_id == flow_variable(name).variable_id
                    IN /\ Cardinality({i \in DOMAIN losses : losses[i].interconnector = name}) = 1
                       /\ Cardinality({i \in DOMAIN weights : weights[i].interconnector = name})
                             = Cardinality(points)
                       /\ \A q \in points : \E v \in w : /\ v.loss_segment = q.loss_segment
                                                         /\ v.break_point = q.break_point
                       /\ \A v \in w : v.lower_bound = 0 /\ v.upper_bound = 1
                       /\ \E sum_row \in Range(sums), to_flow, to_loss \in Range(links),
                             loss \in of_interconnector(losses, name) :
                             /\ of_interconnector(sums, name) = {sum_row}
                             /\ of_interconnector(links, name) = {to_flow, to_loss}
                             /\ sum_row.type = "=" /\ sum_row.rhs = 1
                             /\ loss_lhs_of(lhs, sum_row.constraint_id) = {<<v.variable_id, 1>> : v \in w}
                             /\ to_flow.type = "=" /\ to_flow.rhs_variable_id = flow_id
                             /\ loss_lhs_of(lhs, to_flow.constraint_id)
                                   = {<<v.variable_id, v.break_point>> : v \in w}
                             /\ to_loss.type = "=" /\ to_loss.rhs_variable_id = loss.variable_id
                             /\ to_loss.constraint_id # to_flow.constraint_id
                             /\ loss_lhs_of(lhs, to_loss.constraint_id)
                                   = {<<v.variable_id, loss_function(f.loss_function, v.break_point)>> : v \in w}
              /\ Len(losses) = n /\ Len(sums) = n /\ Len(links) = 2 * n
              /\ Len(lhs) = 3 * Len(weights)
              /\ consecutive_from(Column(losses, "variable_id") \o Column(weights, "variable_id"),
                                  next_variable_id)
              /\ consecutive_from(Column(sums, "constraint_id") \o Column(links, "constraint_id"),
                                  next_constraint_id)
              /\ \A i \in 1..n : links[i].rhs_variable_id \notin Range(Column(losses, "variable_id"))
              /\ \A i \in (n + 1)..(2 * n) : links[i].rhs_variable_id \in Range(Column(losses, "variable_id"))
              /\ call'.variable_ids = Column(losses, "variable_id") \o Column(weights, "variable_id")
              /\ call'.constraint_ids = Column(sums, "constraint_id") \o Column(links, "constraint_id")
              /\ next_variable_id' = next_variable_id + Len(call'.variable_ids)
              /\ next_constraint_id' = next_constraint_id + Len(call'.constraint_ids)]_vars

\* loss models were stored for two interconnectors on a variable counter that had
\* moved on from 0
C24_Witness ==
    /\ call.op = "set_interconnector_losses" /\ call.error = "none"
    /\ Len(call.argument.loss_functions) = 2
    /\ call.variable_ids[1] = 2
    /\ Len(call.constraint_ids) = 6
    /\ \E r \in Range(lhs_coefficients["interconnector_losses"]) : r.coefficient \notin {0, 1}

----------------------------------------------------------------------------
(* Claims about the links of the generic constraints.                      *)

LinkKey ==
    [link_units_to_generic_constraints |-> "unit",
     link_regions_to_generic_constraints |-> "region",
     link_interconnectors_to_generic_constraints |-> "interconnectors"]

links_stored(key) == IF key \in DOMAIN generic_constraint_lhs THEN Range(generic_constraint_lhs[key]) ELSE {}

generic_constraints ==
    IF "generic" \in DOMAIN constraints_rhs_and_type THEN Range(constraints_rhs_and_type["generic"]) ELSE {}

bound_entry(link, constraint, variable) ==
    [variable_id |-> variable.variable_id, constraint_id |-> constraint.constraint_id,
     coefficient |-> link.coefficient]

\* the entries the links stored so far give with the constraints and variables held now
links_bound_now ==
    {bound_entry(t[1], t[2], t[3]) :
        t \in {t \in links_stored("unit") \X generic_constraints \X variables_in("bids") :
                  t[1].set = t[2].set /\ t[1].unit = t[3].unit /\ t[1].service = t[3].service}}
    \cup
    {bound_entry(t[1], t[2], t[3]) :
        t \in {t \in links_stored("region") \X generic_constraints \X variables_in("bids") :
                  t[1].set = t[2].set /\ t[1].region = region_of(t[3].unit) /\ t[1].service = t[3].service}}
    \cup
    {bound_entry(t[1], t[2], t[3]) :
        t \in {t \in links_stored("interconnectors") \X generic_constraints \X variables_in("interconnectors") :
                  t[1].set = t[2].set /\ t[1].interconnector = t[3].interconnector}}

\* C25: the three link methods, called with a well-formed table, return
\* without raising, issue no id, store their argument under their key of
\* generic_constraint_lhs and change no other table and no counter.  Whatever the order of the calls, the generic lhs that
\* dispatch builds holds exactly the entries that the links stored so far give
\* with the generic constraints, bid variables and flow variables held at that
\* moment, and the slack dispatch attaches to a generic constraint is taken
\* from those entries.
C25_LinksAreBoundAtDispatch ==
    /\ [][call'.op \in DOMAIN LinkKey
            => /\ call'.error = "none"
               /\ call'.variable_ids = <<>> /\ call'.constraint_ids = <<>>
               /\ generic_constraint_lhs' = Put(generic_constraint_lhs, LinkKey[call'.op], call'.argument)
               /\ UNCHANGED <<unit_info, unit_info_columns, decision_variables, variable_to_constraint_map,
                              constraint_to_variable_map, lhs_coefficients, constraints_rhs_and_type,
                              constraints_dynamic_rhs_and_type, market_constraints_rhs_and_type,
                              objective_function_components, interconnector_directions,
                              interconnector_loss_shares, counters>>]_vars
    /\ [](/\ Range(generic_lhs) = links_bound_now
          /\ Dispatched =>
                \A g \in generic_constraints :
                   g.slack = CASE g.type = "<=" -> g.rhs - lhs_without(g.constraint_id, NoConstraint)
                               [] g.type = ">=" -> lhs_without(g.constraint_id, NoConstraint) - g.rhs
                               [] OTHER -> 0)

\* the bids are created after the three links and the generic constraints were stored, and
\* the links to units and regions are bound to the new bid variables
C25_Witness ==
    /\ call.op = "set_unit_volume_bids" /\ call.error = "none"
    /\ "dispatch" \notin succeeded
    /\ DOMAIN LinkKey \subseteq succeeded
    /\ \E e \in Range(generic_lhs), l \in links_stored("region") :
          e.variable_id \in Range(call.variable_ids) /\ e.coefficient = l.coefficient
    /\ \E e \in Range(generic_lhs), l \in links_stored("unit"), g \in generic_constraints :
          /\ e.variable_id \in Range(call.variable_ids)
          /\ g.set = l.set /\ g.set = "G1" /\ e.constraint_id = g.constraint_id

----------------------------------------------------------------------------
(* Claims about what dispatch changes.                                     *)

\* every table of the dict new is the table of old with the added columns, and with
\* every column of old as it was
only_columns_added(old, new, added) ==
    /\ DOMAIN new = DOMAIN old
    /\ \A k \in DOMAIN old :
          /\ Len(new[k]) = Len(old[k])
          /\ \A i \in DOMAIN old[k] :
                /\ DOMAIN new[k][i] = DOMAIN old[k][i] \cup added
                /\ \A f \in DOMAIN old[k][i] \ added : new[k][i][f] = old[k][i][f]

count_of(log, method) == Cardinality(positions(log, {method}))

\* C26: a dispatch that returns leaves both counters, unit_info, the maps, the
\* lhs coefficients, the links and the objective terms as they were; every
\* variable table is the old one with the column value added, every
\* constraint table the old one with slack added, every market constraint
\* table the old one with slack and, if prices were asked for, price added,
\* so no id, bound, type, rhs or coefficient changes; the solver is read once
\* per table, after the one call of optimize.
C26_DispatchOnlyAttachesResults ==
    [][(call'.op = "dispatch" /\ call'.error = "none")
        => /\ UNCHANGED <<unit_info, unit_info_columns, variable_to_constraint_map, constraint_to_variable_map,
                          lhs_coefficients, generic_constraint_lhs, objective_function_components,
                          interconnector_directions, interconnector_loss_shares, counters>>
           /\ only_columns_added(decision_variables, decision_variables', {"value"})
           /\ only_columns_added(constraints_rhs_and_type, constraints_rhs_and_type', {"slack"})
           /\ only_columns_added(constraints_dynamic_rhs_and_type, constraints_dynamic_rhs_and_type',
                                 {"slack"})
           /\ only_columns_added(market_constraints_rhs_and_type, market_constraints_rhs_and_type',
                                 IF call'.argument THEN {"slack", "price"} ELSE {"slack"})
           /\ count_of(solver_calls', "optimize") = 1
           /\ before(solver_calls', {"optimize"}, Reads)
           /\ count_of(solver_calls', "get_optimal_values_of_decision_variables")
                 = Cardinality(DOMAIN decision_variables)
           /\ count_of(solver_calls', "get_slack_in_constraints")
                 = Cardinality(DOMAIN constraints_rhs_and_type)
                   + Cardinality(DOMAIN constraints_dynamic_rhs_and_type)
                   + Cardinality(DOMAIN market_constraints_rhs_and_type)
           /\ count_of(solver_calls', "price_constraints")
                 = (IF call'.argument THEN Cardinality(DOMAIN market_constraints_rhs_and_type) ELSE 0)]_vars

\* a dispatch with prices has returned on a model with bids, flows, losses, weights, a
\* demand constraint, a sum of weights and the two links of the loss model
C26_Witness ==
    /\ Dispatched /\ call.argument
    /\ DOMAIN decision_variables = {"bids", "interconnectors", "interconnector_losses", "interpolation_weights"}
    /\ \A r \in rows_of(decision_variables) : "value" \in DOMAIN r
    /\ \A r \in rows_of(constraints_rhs_and_type) \cup rows_of(constraints_dynamic_rhs_and_type) :
          "slack" \in DOMAIN r
    /\ \E r \in rows_of(market_constraints_rhs_and_type) : {"slack", "price"} \subseteq DOMAIN r
    /\ constraints_rhs_and_type # EmptyDict /\ constraints_dynamic_rhs_and_type # EmptyDict

\* the model is handed to the solver whole
ReachesOptimize ==
    /\ ~concat_of_nothing
    /\ decision_variables # EmptyDict
    /\ ~has_unknown_variable(variable_definitions,
                             scaled_constraints_lhs \o objective_function_definition,
                             scaled_constraints_rhs_and_type)

HasSolution ==
    feasible_points(variable_definitions, scaled_constraints_lhs, scaled_constraints_rhs_and_type,
                    NoConstraint, grid_step) # {}

\* no point within the bounds of the variables meets the constraints held
Infeasible == ReachesOptimize /\ ~HasSolution

\* some point meets the constraints, and a variable without an upper bound and with a cost
\* below zero can grow for ever
Unbounded ==
    /\ ReachesOptimize /\ HasSolution
    /\ \E v \in Range(variable_definitions) :
          /\ v.upper_bound = Inf
          /\ \E t \in Range(objective_function_definition) : t.variable_id = v.variable_id /\ t.cost < 0
          /\ \A r \in Range(scaled_constraints_lhs) :
                r.variable_id = v.variable_id
                   => \E row \in Range(all_constraints_rhs_and_type) :
                         /\ row.constraint_id = r.constraint_id
                         /\ \/ row.type = "<=" /\ r.coefficient < 0
                            \/ row.type = ">=" /\ r.coefficient > 0

\* C27: a dispatch of a model that no point satisfies, or whose cost has no
\* least value, raises the solver's error right after optimize and leaves
\* every table and both counters as they were before the call: no value,
\* slack or price is attached.
C27_FailedOptimizeChangesNothing ==
    [][(call'.op = "dispatch" /\ (Infeasible \/ Unbounded))
        => /\ call'.error = IF Infeasible THEN "InfeasibleError" ELSE "UnboundedError"
           /\ UNCHANGED <<tables, counters>>
           /\ solver_calls'[Len(solver_calls')] = "optimize"
           /\ \A r \in rows_of(decision_variables') : "value" \notin DOMAIN r
           /\ \A r \in rows_of(constraints_rhs_and_type') \cup rows_of(constraints_dynamic_rhs_and_type')
                         \cup rows_of(market_constraints_rhs_and_type') :
                 DOMAIN r \cap {"slack", "price"} = {}
           /\ result_columns' = {}]_vars

\* a dispatch of a model whose unit capacity is below the demand has raised, and now a
\* dispatch of the model with that capacity made elastic at a cost below zero has raised
C27_Witness ==
    /\ call.op = "dispatch" /\ call.error = "UnboundedError"
    /\ Unbounded
    /\ optimize_errors = {"InfeasibleError", "UnboundedError"}
    /\ {"bids", "unit_capacity_deficit"} \subseteq DOMAIN decision_variables
    /\ "unit_capacity" \in DOMAIN constraints_rhs_and_type
    /\ "demand" \in DOMAIN market_constraints_rhs_and_type
    /\ violation_costs["unit_capacity"] = CostNum(-1)

----------------------------------------------------------------------------
(* Claims about the ids the tables refer to.                               *)

\* the ids of the variables that decision_variables holds
held_variable_ids == variable_ids_of(variable_definitions)

\* the ids of the constraints that the three rhs dicts hold
held_constraint_ids == Range(Column(all_constraints_rhs_and_type, "constraint_id"))

\* the variable ids that an incidence entry, an objective term or a dynamic rhs refers to
referenced_variable_ids ==
    Range(Column(constraints_lhs, "variable_id"))
    \cup Range(Column(objective_function_definition, "variable_id"))
    \cup Range(Column(dynamic_rows, "rhs_variable_id"))

\* the constraint ids that an incidence entry refers to
referenced_constraint_ids == Range(Column(constraints_lhs, "constraint_id"))

\* C28: whenever dispatch may start, after a builder call that returned
\* without raising, every variable id that an incidence entry, an objective
\* term or a dynamic rhs refers to is held in decision_variables, and every
\* constraint id that an incidence entry refers to is held in an rhs table;
\* also when a builder has been invoked again after one that depends on it.
C28_EveryReferencedIdIsHeld ==
    (call.error = "none" /\ call.op # "dispatch")
       => /\ referenced_variable_ids \subseteq held_variable_ids
          /\ referenced_constraint_ids \subseteq held_constraint_ids


\* a counter is an integer, not the nan that the max of an empty column gives
is_integer(counter) == counter # NaN

\* float comparison a >= b: false when either side is nan
not_smaller(a, b) == a # NaN /\ b # NaN /\ a >= b

\* C29: after every builder call that returns without raising, next_variable_id
\* and next_constraint_id are integers not smaller than before the call; a call
\* on an empty table leaves its counter unchanged.
C29_CountersStayIntegersAndNeverDecrease ==
    [][(call'.error = "none" /\ call'.op # "dispatch")
        => /\ is_integer(next_variable_id') /\ is_integer(next_constraint_id')
           /\ not_smaller(next_variable_id', next_variable_id)
           /\ not_smaller(next_constraint_id', next_constraint_id)
           /\ (call'.variable_ids = <<>> => next_variable_id' = next_variable_id)
           /\ (call'.constraint_ids = <<>> => next_constraint_id' = next_constraint_id)]_vars


----------------------------------------------------------------------------
(* Claims about the joint ramping constraints.                             *)

\* the variables and coefficients of a constraint in the unit level lhs of dispatch
unit_lhs_of(constraint_id) ==
    {<<r.variable_id, r.coefficient>> :
        r \in {x \in Range(unit_constraints_lhs) : x.constraint_id = constraint_id}}

\* the bid variables of a unit for a service, each with the coefficient
bids_with(unit, service, coefficient) ==
    {<<v.variable_id, coefficient>> :
        v \in bid_variables_of(decision_variables, [unit |-> unit, service |-> service])}

====
